---- MODULE Spec2Model ----
(***************************************************************************)
(* Post-copy live migration (migration-postcopy.c).                        *)
(*                                                                         *)
(* Three specifications over one set of variables:                         *)
(*   Spec       destination umem daemon (request builder, stream reader,   *)
(*              clean-bitmap loader, pipe thread) composed with the source *)
(*              outgoing engine over the two half-connections;             *)
(*   SpecSrc    the source outgoing engine driven by an arbitrary peer     *)
(*              that writes well-formed request frames and may close;      *)
(*   SpecCodec  the request codec: frames written by                       *)
(*              postcopy_incoming_send_req_one arrive in arbitrary chunks  *)
(*              and are parsed by postcopy_outgoing_recv_req.              *)
(***************************************************************************)
EXTENDS Integers, Sequences, FiniteSets, TLC

VARIABLES
    mode,               \* which specification is running: "full", "umemd", "src",
                        \* "codec", "trip", "frame", "load", "bitmap", "req",
                        \* "pending", "threads", "fault_in"
    \* ---- configuration fixed at migration start
    ratio,              \* "eq", "tgt_gt_host", "host_gt_tgt" (TARGET_PAGE_SIZE vs getpagesize())
    precopy_enabled,    \* umemd.precopy_enabled / params.precopy_count > 0
    prefault_forward,   \* ms->params.prefault_forward
    prefault_backward,  \* ms->params.prefault_backward
    no_background,      \* migrate_postcopy_outgoing_no_background()
    \* ---- source outgoing engine
    po_state,           \* PostcopyOutgoingState.state
    src_last_block,     \* PostcopyOutgoingState.last_block_read (0 = NULL)
    dirty,              \* migration bitmap: [block -> set of dirty target pages]
    bg_cursor,          \* last seen block/offset of the background walk
    file_read,          \* ms->file_read: [fb: buffered bytes, sk: bytes in the socket,
                        \*                 closed: peer closed, err: file error latched]
    src_pc,             \* "loop" while postcopy_outgoing iterates, "returned" after
    src_ret,            \* value postcopy_outgoing returns / last tick returned
    out_log,            \* every record the source wrote to ms->file in the post-copy phase
    svc_log,            \* every request postcopy_outgoing_handle_req was entered with
    eoc_mark,           \* Len(out_log) when EOC_RECEIVED was entered, -1 before
    peer_sent,          \* peer of SpecSrc: n frames written, last the block of its last PAGE;
                        \* peer of SpecLoad: n records written
    \* ---- wire source -> destination
    mig_stream,         \* records written by the source and not yet read by mig-read
    \* ---- destination umem daemon
    umemd_state,        \* umemd.state, as the set of UMEM_STATE_* bits that are set
    phys_requested,     \* UMemBlock.phys_requested  [block -> set of target pages]
    phys_received,      \* UMemBlock.phys_received
    clean_bitmap,       \* UMemBlock.clean_bitmap
    cached,             \* backing store: host pages marked cached [block -> set]
    fault_q,            \* backing store: faulted host pages not yet drained [block -> seq]
    nfaults,            \* number of faults raised so far
    last_block_write,   \* umemd.last_block_write (0 = NULL)
    dst_last_block_read,\* umemd.last_block_read (0 = NULL)
    mig_write_open,     \* umemd.mig_write != NULL
    mig_read_open,      \* umemd.mig_read != NULL
    mig_read_pc,        \* mig-read thread: "init", "loop", "exit"
    loaded,             \* blocks whose clean bitmap record has been loaded
    sup_quit,           \* UMEM_QEMU_QUIT of the supervisor: cmd "none", "sent", "read";
                        \* by "cleanup" or "handle_req"; owed: the source still had
                        \* dirty pages when it was written
    to_qemu_log,        \* commands the daemon wrote to the supervisor
    req_log,            \* every (block, pgoff) the daemon named in a PAGE/PAGE_CONT frame,
                        \* with whether the block's clean bitmap was loaded at that time
    eoc_log,            \* Len(req_log) at each write of the EOC request to mig_write
    thr_pc,             \* mig-write and pipe threads: "loop", "exit"
    bitmap_pc,          \* one-shot bitmap thread: 0 not created, i at UMemBlocks[i],
                        \* Len(UMemBlocks) + 1 when it has returned
    sup_read,           \* commands of to_qemu_log the supervisor has handled
    vm_stopped,         \* the supervisor called vm_stop(RUN_STATE_IO_ERROR)
    last_load,          \* the last call of postcopy_incoming_umem_ram_loaded
    \* ---- codec harness
    cd_todo,            \* frames still to be written by the sender
    cd_sent,            \* frames written so far
    cd_wire,            \* bytes written and not yet arrived in the socket
    cd_got,             \* requests returned by postcopy_outgoing_recv_req
    cd_skipped,         \* total bytes qemu_file_skip advanced
    cd_last,            \* outcome of the last parse: "none", "ok", "again", and the
                        \* buffered-plus-socket bytes before and after it
    \* ---- fault pipe and pending-clean harness
    pending_clean,      \* UMemBlock.pending_clean_bitmap [block -> set of host pages]
    fault_pipe,         \* host-page offsets written to umemd.fault_write_fd and not yet
                        \* read by the supervisor's fault thread
    fault_back,         \* offsets the supervisor wrote back, not yet read from
                        \* umemd.fault_read_fd
    page_cached_nr,     \* umemd.page_cached->nr
    bm_work,            \* batches the clean-bitmap worker still has to pass to mark_cached
    pend_thr,           \* pending-clean thread: pc "none" (not created), "idle", "waitfd",
                        \* "scan", "write", "exit"; blocks left in its QLIST_FOREACH, the
                        \* bit its scan is at, the batch it is writing
    fault_thr,          \* the fault threads: umemd "loop", "exit", and "freed" once the
                        \* daemon has run postcopy_incoming_umem_block_free; qemu
                        \* "loop", "closed"
    unmap_calls,        \* calls of umem_unmap_shmem per block, counted up to MaxUnmap
    pend_log,           \* every mark_cached that met would-block, and every batch the
                        \* pending-clean thread wrote to the pipe
    \* ---- counters, thread lifecycle, supervisor's fault-intake loop
    pend_nr,            \* total: umemd.nr_pending_clean; block: UMemBlock.nr_pending_clean
    thr_life,           \* bitmap, pending: calls of qemu_thread_create for
                        \* umemd.bitmap_thread and umemd.pending_clean_thread; main: where
                        \* postcopy_incoming_umemd is in its joins; joined: every
                        \* qemu_thread_join it made of the two, with the calls of
                        \* qemu_thread_create before it
    fault_in            \* postcopy_incoming_fault_thread: its buffer, the bytes in the two
                        \* pipes, the offsets written and forwarded, and the calls of close

thrvars == <<thr_pc, bitmap_pc, sup_read, vm_stopped, last_load>>
cfgvars == <<ratio, precopy_enabled, prefault_forward, prefault_backward, no_background>>
srcvars == <<po_state, src_last_block, dirty, bg_cursor, file_read, src_pc, src_ret,
             out_log, svc_log, eoc_mark, peer_sent>>
dstvars == <<umemd_state, phys_requested, phys_received, clean_bitmap, cached, fault_q,
             nfaults, last_block_write, dst_last_block_read, mig_write_open,
             mig_read_open, mig_read_pc, loaded, sup_quit, to_qemu_log, req_log,
             eoc_log, thrvars>>
cdvars  == <<cd_todo, cd_sent, cd_wire, cd_got, cd_skipped, cd_last>>
pcvars  == <<pending_clean, fault_pipe, fault_back, page_cached_nr, bm_work, pend_thr,
             fault_thr, unmap_calls, pend_log>>
hvars   == <<pend_nr, thr_life, fault_in>>
vars    == <<mode, hvars, cfgvars, srcvars, mig_stream, dstvars, cdvars, pcvars>>

----------------------------------------------------------------------------
(* Bounds of the model.                                                    *)

\* size of the first RAM block in units of the larger of host and target page
BlockUnits == 2
\* faults the guest raises during one run
MaxFaults == 2
\* longest prefix of each block that precopy left clean, with every daemon thread
MaxUmemdCleanPrefix == 2
\* page records the peer of SpecLoad writes during one run
MaxStreamRecs == 3
\* faults the guest raises during one run with every daemon thread and the supervisor
MaxUmemdFaults == 1
\* frames the peer of SpecSrc writes during one run
MaxPeerFrames == 2
\* size of the first RAM block in the request harness, in target pages
ReqBlockUnits == 4
\* largest prefault window tried in the request harness
MaxReqPrefault == 2
\* frames the peer of the request harness writes during one run
MaxReqFrames == 2
\* background pages written by one call of postcopy_outgoing_ram_save_background
MaxBurst == 2
\* largest prefault window (prefault_forward, prefault_backward) tried
MaxPrefault == 1
\* longest prefix of each block that precopy left clean
MaxCleanPrefix == 1
\* page offsets carried by one request of the codec harness
MaxCodecNr == 2
\* requests written by the sender of the codec harness
MaxCodecFrames == 2
\* size of the read buffer in the round-trip harness, where it is scaled down so that
\* some frames fit and some do not
TripBufSize == 22
\* largest request given to the frame builder, in multiples of MAX_PAGE_NR
MaxChunks == 2

----------------------------------------------------------------------------
(* Small helpers.                                                          *)

\* the specifications in which source and daemon run together
Composite == {"full", "umemd"}

Min(a, b) == IF a < b THEN a ELSE b

RECURSIVE Pow2(_)
Pow2(n) == IF n = 0 THEN 1 ELSE 2 * Pow2(n - 1)

RECURSIVE Flatten(_)
Flatten(ss) == IF ss = <<>> THEN <<>> ELSE Head(ss) \o Flatten(Tail(ss))

Drop(s, n) == SubSeq(s, n + 1, Len(s))

----------------------------------------------------------------------------
(* Wire codec: umem daemon on destination <-> qemu on source.              *)

QEMU_UMEM_REQ_EOC == 0
QEMU_UMEM_REQ_PAGE == 1
QEMU_UMEM_REQ_PAGE_CONT == 2

EAGAIN == 11
EINVAL == 22

\* qemu_put_be32 / qemu_put_be64: the w low-order bytes of n, most significant first
RECURSIVE BE(_, _)
BE(n, w) == IF w = 0 THEN <<>> ELSE Append(BE(n \div 256, w - 1), n % 256)

\* be32_to_cpu / be64_to_cpu of the bytes as they were on the wire
RECURSIVE FromBE(_)
FromBE(bs) == IF bs = <<>> THEN 0
              ELSE FromBE(SubSeq(bs, 1, Len(bs) - 1)) * 256 + bs[Len(bs)]

\* a request as the daemon holds it (QEMUUMemReq): cmd, idstr, pgoffs (nr = Len(pgoffs))
Req(cmd, idstr, pgoffs) == [cmd |-> cmd, idstr |-> idstr, pgoffs |-> pgoffs]

postcopy_incoming_send_req_idstr(idstr) == <<Len(idstr) % 256>> \o idstr

\* mutant: the offsets are written last to first
postcopy_incoming_send_req_pgoffs_m1(nr, pgoffs) ==
    BE(nr, 4) \o Flatten([i \in 1..nr |-> BE(pgoffs[nr + 1 - i], 8)])

postcopy_incoming_send_req_pgoffs(nr, pgoffs) ==
    BE(nr, 4) \o Flatten([i \in 1..nr |-> BE(pgoffs[i], 8)])

\* the bytes one call appends to the QEMUFile
postcopy_incoming_send_req_one(req) ==
    <<req.cmd>> \o
    (CASE req.cmd = QEMU_UMEM_REQ_EOC -> <<>>
       [] req.cmd = QEMU_UMEM_REQ_PAGE ->
            postcopy_incoming_send_req_idstr(req.idstr) \o
            postcopy_incoming_send_req_pgoffs(Len(req.pgoffs), req.pgoffs)
       [] req.cmd = QEMU_UMEM_REQ_PAGE_CONT ->
            postcopy_incoming_send_req_pgoffs(Len(req.pgoffs), req.pgoffs))

\* the bytes the calls of qemu_put_byte, qemu_put_buffer, qemu_put_be32 and
\* qemu_put_be64 made by postcopy_incoming_send_req_one add to the QEMUFile, counted
SendReqIdstrLen(idstr) == 1 + Len(idstr)
SendReqPgoffsLen(nr) == 4 + 8 * nr
SendReqOneLen(req) ==
    1 + (CASE req.cmd = QEMU_UMEM_REQ_EOC -> 0
           [] req.cmd = QEMU_UMEM_REQ_PAGE ->
                SendReqIdstrLen(req.idstr) + SendReqPgoffsLen(Len(req.pgoffs))
           [] req.cmd = QEMU_UMEM_REQ_PAGE_CONT -> SendReqPgoffsLen(Len(req.pgoffs)))

\* mutant: the whole buffer is counted as room for page offsets
MAX_PAGE_NR_m1 == (32 * 1024) \div 8

MAX_PAGE_NR == (32 * 1024 - 1 - 1 - 256 - 2) \div 8

\* the PAGE_CONT frames of the while loop of postcopy_file_incoming_send_req
RECURSIVE SendReqCont(_)
SendReqCont(pgoffs) ==
    IF Len(pgoffs) = 0 THEN <<>>
    ELSE LET n == Min(Len(pgoffs), MAX_PAGE_NR)
         IN  <<Req(QEMU_UMEM_REQ_PAGE_CONT, <<>>, SubSeq(pgoffs, 1, n))>>
             \o SendReqCont(Drop(pgoffs, n))

\* mutant: the request is written as one frame, whatever its length
postcopy_file_incoming_send_req_m1(req) == <<req>>

\* the frames postcopy_file_incoming_send_req writes for one request, in order
postcopy_file_incoming_send_req(req) ==
    CASE req.cmd = QEMU_UMEM_REQ_EOC -> <<req>>
      [] req.cmd = QEMU_UMEM_REQ_PAGE ->
            LET n == Min(Len(req.pgoffs), MAX_PAGE_NR)
            IN  <<Req(QEMU_UMEM_REQ_PAGE, req.idstr, SubSeq(req.pgoffs, 1, n))>>
                \o SendReqCont(Drop(req.pgoffs, n))
      [] req.cmd = QEMU_UMEM_REQ_PAGE_CONT -> SendReqCont(req.pgoffs)

\* bytes put on the wire by postcopy_incoming_send_req for the file transport
SendReqBytes(req) ==
    LET fr == postcopy_file_incoming_send_req(req)
    IN  Flatten([i \in 1..Len(fr) |-> postcopy_incoming_send_req_one(fr[i])])

\* "QEMUFile can buffer up to IO_BUF_SIZE = 32 * 1024"
IO_BUF_SIZE == 32 * 1024

(* The read side QEMUFile of the source: fb are the bytes in the QEMUFile   *)
(* buffer from the read cursor on, sk the bytes waiting in the socket,     *)
(* closed whether the peer closed its end, err the latched file error,     *)
(* cap the size of the buffer.                                             *)
FileInit == [fb |-> <<>>, sk |-> <<>>, closed |-> FALSE, err |-> FALSE,
             cap |-> IO_BUF_SIZE]

\* qemu_fill_buffer after the socket gave n bytes
FillTake(q, n) ==
    [q EXCEPT !.fb = q.fb \o SubSeq(q.sk, 1, n), !.sk = Drop(q.sk, n),
              !.err = q.err \/ (q.sk = <<>> /\ q.closed)]

\* qemu_fill_buffer on the non-blocking socket: takes what the socket holds, as far as
\* the buffer has room behind the pending bytes; a read of 0 bytes at end of file
\* latches the error
qemu_fill_buffer(q) == FillTake(q, Min(Len(q.sk), q.cap - Len(q.fb)))

\* qemu_peek_buffer(f, buf, size, offset): number of bytes copied, the bytes, the file
PeekCopy(q, n, offset) ==
    [n |-> n, bytes |-> SubSeq(q.fb, offset + 1, offset + n), q |-> q]

\* qemu_peek_buffer once the buffer was refilled if it had to be: pending and size
PeekFilled(q, size, offset) ==
    PeekCopy(q, IF Len(q.fb) - offset <= 0 THEN 0 ELSE Min(size, Len(q.fb) - offset),
             offset)

qemu_peek_buffer(q, size, offset) ==
    PeekFilled(IF Len(q.fb) - offset < size THEN qemu_fill_buffer(q) ELSE q, size, offset)

\* qemu_peek_byte(f, offset): the byte, or 0 when there is none
PeekByteFilled(q, offset) ==
    [byte |-> IF offset >= Len(q.fb) THEN 0 ELSE q.fb[offset + 1], q |-> q]

qemu_peek_byte(q, offset) ==
    PeekByteFilled(IF offset >= Len(q.fb) THEN qemu_fill_buffer(q) ELSE q, offset)

\* qemu_file_skip(f, size)
qemu_file_skip(q, size) == [q EXCEPT !.fb = Drop(q.fb, Min(size, Len(q.fb)))]

\* mutant: the cursor is not advanced over the id length byte
RecvIdstrPeeked_m1(pk, len, offset) ==
    IF pk.n # len
    THEN [ret |-> -EAGAIN, idstr |-> <<>>, offset |-> offset + pk.n, q |-> pk.q]
    ELSE [ret |-> 0, idstr |-> pk.bytes, offset |-> offset + pk.n, q |-> pk.q]

\* postcopy_outgoing_recv_req_idstr after the id bytes were peeked into pk
RecvIdstrPeeked(pk, len, offset) ==
    IF pk.n # len
    THEN [ret |-> -EAGAIN, idstr |-> <<>>, offset |-> offset + 1 + pk.n, q |-> pk.q]
    ELSE [ret |-> 0, idstr |-> pk.bytes, offset |-> offset + 1 + pk.n, q |-> pk.q]

\* postcopy_outgoing_recv_req_idstr after the length byte was peeked into pb
RecvIdstrLen(pb, offset) ==
    IF pb.byte = 0
    THEN [ret |-> -EAGAIN, idstr |-> <<>>, offset |-> offset + 1, q |-> pb.q]
    ELSE RecvIdstrPeeked(qemu_peek_buffer(pb.q, pb.byte, offset + 1), pb.byte, offset)

postcopy_outgoing_recv_req_idstr(q, offset) ==
    RecvIdstrLen(qemu_peek_byte(q, offset), offset)

\* the for loop of postcopy_outgoing_recv_req_pgoffs from entry i on, and its body
\* after the entry was peeked into pk
RECURSIVE RecvPgoffsLoop(_, _, _, _, _)
RECURSIVE RecvPgoffsPeeked(_, _, _, _, _)
RecvPgoffsPeeked(pk, offset, nr, i, acc) ==
    IF pk.n # 8
    THEN [ret |-> -EAGAIN, pgoffs |-> <<>>, offset |-> offset + 8, q |-> pk.q]
    ELSE RecvPgoffsLoop(pk.q, offset + 8, nr, i + 1, Append(acc, FromBE(pk.bytes)))

RecvPgoffsLoop(q, offset, nr, i, acc) ==
    IF i >= nr THEN [ret |-> 0, pgoffs |-> acc, offset |-> offset, q |-> q]
    ELSE RecvPgoffsPeeked(qemu_peek_buffer(q, 8, offset), offset, nr, i, acc)

\* postcopy_outgoing_recv_req_pgoffs after nr was peeked into pk
RecvPgoffsNr(pk, offset) ==
    IF pk.n # 4
    THEN [ret |-> -EAGAIN, pgoffs |-> <<>>, offset |-> offset + 4, q |-> pk.q]
    ELSE RecvPgoffsLoop(pk.q, offset + 4, FromBE(pk.bytes), 0, <<>>)

postcopy_outgoing_recv_req_pgoffs(q, offset) ==
    RecvPgoffsNr(qemu_peek_buffer(q, 4, offset), offset)

\* req as postcopy_outgoing_recv_req leaves it when it fails
NoReq == Req(QEMU_UMEM_REQ_EOC, <<>>, <<>>)

\* postcopy_outgoing_recv_req after the page offsets were read into pg:
\* qemu_file_skip commits the request
RecvReqDone(cmd, idstr, pg) ==
    IF pg.ret < 0 THEN [ret |-> pg.ret, req |-> NoReq, q |-> pg.q]
    ELSE [ret |-> 0, req |-> Req(cmd, idstr, pg.pgoffs),
          q |-> qemu_file_skip(pg.q, pg.offset)]

\* postcopy_outgoing_recv_req, case QEMU_UMEM_REQ_PAGE, after the id was read into id
RecvReqPage(cmd, id) ==
    IF id.ret < 0 THEN [ret |-> id.ret, req |-> NoReq, q |-> id.q]
    ELSE RecvReqDone(cmd, id.idstr, postcopy_outgoing_recv_req_pgoffs(id.q, id.offset))

\* postcopy_outgoing_recv_req after the command byte was peeked into pk
RecvReqCmd(pk) ==
    IF pk.n <= 0 THEN [ret |-> -EAGAIN, req |-> NoReq, q |-> pk.q]
    ELSE CASE pk.bytes[1] = QEMU_UMEM_REQ_EOC ->
                [ret |-> 0, req |-> Req(pk.bytes[1], <<>>, <<>>),
                 q |-> qemu_file_skip(pk.q, 1)]
           [] pk.bytes[1] = QEMU_UMEM_REQ_PAGE ->
                RecvReqPage(pk.bytes[1], postcopy_outgoing_recv_req_idstr(pk.q, 1))
           [] pk.bytes[1] = QEMU_UMEM_REQ_PAGE_CONT ->
                RecvReqDone(pk.bytes[1], <<>>, postcopy_outgoing_recv_req_pgoffs(pk.q, 1))

\* postcopy_outgoing_recv_req(f, req): ret, the request, and the file afterwards
postcopy_outgoing_recv_req(q) == RecvReqCmd(qemu_peek_buffer(q, 1, 0))

----------------------------------------------------------------------------
(* Memory layout.  Sizes are in bytes of a scaled-down machine: a target    *)
(* page has 4 bytes, a host page 2, 4 or 8.                                 *)

TARGET_PAGE_BITS == 2
TARGET_PAGE_SIZE == Pow2(TARGET_PAGE_BITS)

Ratios == {"eq", "tgt_gt_host", "host_gt_tgt"}

\* getpagesize() on the destination host
getpagesize(r) == CASE r = "eq" -> TARGET_PAGE_SIZE
                    [] r = "tgt_gt_host" -> TARGET_PAGE_SIZE \div 2
                    [] r = "host_gt_tgt" -> TARGET_PAGE_SIZE * 2

\* ffs(3): 1-based index of the least significant set bit, 0 for 0
RECURSIVE ffs(_)
ffs(x) == IF x = 0 THEN 0 ELSE IF x % 2 = 1 THEN 1 ELSE 1 + ffs(x \div 2)

\* the read-only fields postcopy_incoming_prepare computes
host_page_size == getpagesize(ratio)
host_page_shift == ffs(host_page_size) - 1
nr_host_pages_per_target_page == TARGET_PAGE_SIZE \div host_page_size
nr_target_pages_per_host_page == host_page_size \div TARGET_PAGE_SIZE
target_to_host_page_shift == ffs(nr_host_pages_per_target_page) - 1
host_to_target_page_shift == ffs(nr_target_pages_per_host_page) - 1

\* RAM blocks: ram_list.blocks in order, and umemd.blocks (QLIST_INSERT_HEAD reverses)
Blocks == {1, 2}
RamList == <<1, 2>>
UMemBlocks == <<2, 1>>
NoBlock == 0

\* RAMBlock.idstr as bytes; UnknownId names no block
IdStr(b) == <<96 + b>>
UnknownId == <<120>>

\* RAMBlock.length / UMemBlock.length
BlockLength(b) ==
    (IF b = 1 THEN (IF mode = "req" THEN ReqBlockUnits ELSE BlockUnits) ELSE 1) *
    (IF host_page_size > TARGET_PAGE_SIZE THEN host_page_size ELSE TARGET_PAGE_SIZE)

\* target-page and host-page offsets of a block
NrTargetPages(b) == BlockLength(b) \div TARGET_PAGE_SIZE
NrHostPages(b) == BlockLength(b) \div host_page_size
TargetPages(b) == 0..(NrTargetPages(b) - 1)
HostPages(b) == 0..(NrHostPages(b) - 1)

\* ram_find_block(idstr, len): the block of that name, NULL if there is none
ram_find_block(idstr) ==
    IF \E b \in Blocks : IdStr(b) = idstr
    THEN CHOOSE b \in Blocks : IdStr(b) = idstr
    ELSE NoBlock

----------------------------------------------------------------------------
(* Source: outgoing part.                                                  *)

PO_STATE_ACTIVE == "ACTIVE"
PO_STATE_EOC_RECEIVED == "EOC_RECEIVED"
PO_STATE_ALL_PAGES_SENT == "ALL_PAGES_SENT"
PO_STATE_COMPLETED == "COMPLETED"
PO_STATE_ERROR_RECEIVE == "ERROR_RECEIVE"

\* records of the migration stream
PageRec(b, pg) == [type |-> "page", block |-> b, pg |-> pg]
EosRec == [type |-> "eos", block |-> NoBlock, pg |-> 0]
BitmapRec(b, bits) == [type |-> "bitmap", block |-> b, pg |-> 0, bits |-> bits]
BitmapEndRec == [type |-> "bitmap_end", block |-> NoBlock, pg |-> 0]

(* The source engine as a record: state, last (last_block_read), dirty     *)
(* (migration bitmap), cursor (background walk), out (records written),    *)
(* svc (requests handled), mark (out length when EOC_RECEIVED was entered),*)
(* abort (an assert or abort() was hit).                                   *)

\* ram_save_page(f, block, offset): writes the page if its dirty bit is set, and clears it
ram_save_page(s, b, pg) ==
    IF pg \in s.dirty[b]
    THEN [s EXCEPT !.dirty[b] = @ \ {pg}, !.out = Append(@, PageRec(b, pg))]
    ELSE s

postcopy_outgoing_ram_save_page(s, pgoffset, forward, prefault_pgoffset) ==
    IF ~forward /\ pgoffset < prefault_pgoffset THEN s
    ELSE LET pg == IF forward THEN pgoffset + prefault_pgoffset
                   ELSE pgoffset - prefault_pgoffset
             offset == pg * TARGET_PAGE_SIZE
         IN  IF s.last = NoBlock THEN [s EXCEPT !.abort = TRUE]
             ELSE IF offset >= BlockLength(s.last)
             THEN IF forward /\ prefault_pgoffset > 0 THEN s
                  ELSE [s EXCEPT !.abort = TRUE]
             ELSE ram_save_page(s, s.last, pg)

\* mutant: the forward prefault loop runs once more than prefault_forward
SavePageCalls_m1(pgoffs, F, B) ==
    [i \in 1..Len(pgoffs) |-> <<pgoffs[i], TRUE, 0>>] \o
    Flatten([j \in 1..(F + 1) |-> [i \in 1..Len(pgoffs) |-> <<pgoffs[i], TRUE, j>>]]) \o
    Flatten([j \in 1..B |-> [i \in 1..Len(pgoffs) |-> <<pgoffs[i], FALSE, j>>]])

\* mutant: the backward prefaults are sent before the forward prefaults
SavePageCalls_m2(pgoffs, F, B) ==
    [i \in 1..Len(pgoffs) |-> <<pgoffs[i], TRUE, 0>>] \o
    Flatten([j \in 1..B |-> [i \in 1..Len(pgoffs) |-> <<pgoffs[i], FALSE, j>>]]) \o
    Flatten([j \in 1..F |-> [i \in 1..Len(pgoffs) |-> <<pgoffs[i], TRUE, j>>]])

\* the calls of postcopy_outgoing_ram_save_page made for a request, in program order:
\* the requested pages, the forward prefaults j = 1..F, the backward prefaults j = 1..B
SavePageCalls(pgoffs, F, B) ==
    [i \in 1..Len(pgoffs) |-> <<pgoffs[i], TRUE, 0>>] \o
    Flatten([j \in 1..F |-> [i \in 1..Len(pgoffs) |-> <<pgoffs[i], TRUE, j>>]]) \o
    Flatten([j \in 1..B |-> [i \in 1..Len(pgoffs) |-> <<pgoffs[i], FALSE, j>>]])

RECURSIVE SavePages(_, _)
SavePages(s, calls) ==
    IF calls = <<>> \/ s.abort THEN s
    ELSE SavePages(postcopy_outgoing_ram_save_page(s, Head(calls)[1], Head(calls)[2],
                                                   Head(calls)[3]),
                   Tail(calls))

\* migrate_postcopy_outgoing_move_background()
migrate_postcopy_outgoing_move_background == ~no_background

\* ram_save_set_last_seen_block(block, offset)
ram_save_set_last_seen_block(s, b, offset) ==
    [s EXCEPT !.cursor = [b |-> b, pg |-> offset \div TARGET_PAGE_SIZE]]

\* the end of the PAGE / PAGE_CONT body: the background walk moves behind the request
HandlePagesMove(s1, b, last_offset) ==
    IF migrate_postcopy_outgoing_move_background /\ ~s1.abort
    THEN ram_save_set_last_seen_block(s1, b, last_offset)
    ELSE s1

\* the PAGE / PAGE_CONT body of postcopy_outgoing_handle_req, after the block lookup
HandlePages(s, req) ==
    IF s.state = PO_STATE_ALL_PAGES_SENT THEN s
    ELSE HandlePagesMove(
             SavePages(s, SavePageCalls(req.pgoffs, prefault_forward, prefault_backward)),
             s.last,
             Min((req.pgoffs[Len(req.pgoffs)] + prefault_forward) * TARGET_PAGE_SIZE,
                 BlockLength(s.last) - TARGET_PAGE_SIZE))

\* s is the engine when the request is entered, h the outcome: last is the block the
\* request was applied to; the request harness also records sent, the records written
\* for the request, dirty and cur0, the migration bitmap and the background cursor
\* before it, and cur1, the cursor after it
SvcSeen(x) == IF mode = "req" THEN x ELSE <<>>

SvcRec(req, s, h) ==
    [cmd |-> req.cmd, idstr |-> req.idstr, pgoffs |-> req.pgoffs,
     before |-> s.state, after |-> h.s.state, ret |-> h.ret,
     sent |-> SvcSeen(Drop(h.s.out, Len(s.out))), dirty |-> SvcSeen(s.dirty),
     cur0 |-> SvcSeen(s.cursor), cur1 |-> SvcSeen(h.s.cursor),
     last |-> h.s.last, abort |-> h.s.abort]

\* mutant: EOC returns 0, so the receive loop goes on with the next request
HandleEoc_m1(s) ==
    [s |-> IF s.state = PO_STATE_ALL_PAGES_SENT
           THEN [s EXCEPT !.state = PO_STATE_COMPLETED]
           ELSE [s EXCEPT !.state = PO_STATE_EOC_RECEIVED, !.mark = Len(s.out)],
     ret |-> 0]

\* postcopy_outgoing_handle_req, case QEMU_UMEM_REQ_EOC
HandleEoc(s) ==
    [s |-> IF s.state = PO_STATE_ALL_PAGES_SENT
           THEN [s EXCEPT !.state = PO_STATE_COMPLETED]
           ELSE [s EXCEPT !.state = PO_STATE_EOC_RECEIVED, !.mark = Len(s.out)],
     ret |-> 1]

\* postcopy_outgoing_handle_req, case QEMU_UMEM_REQ_PAGE, after ram_find_block
HandlePageBlock(s, req, block) ==
    IF block = NoBlock THEN [s |-> s, ret |-> -EINVAL]
    ELSE [s |-> HandlePages([s EXCEPT !.last = block], req), ret |-> 0]

\* postcopy_outgoing_handle_req(ms, req): the engine afterwards and the return value
HandleReqBody(s, req) ==
    CASE req.cmd = QEMU_UMEM_REQ_EOC -> HandleEoc(s)
      [] req.cmd = QEMU_UMEM_REQ_PAGE ->
            HandlePageBlock(s, req, ram_find_block(req.idstr))
      [] req.cmd = QEMU_UMEM_REQ_PAGE_CONT ->
            [s |-> HandlePages(s, req), ret |-> 0]
      [] OTHER -> [s |-> s, ret |-> -EINVAL]

\* the request and its outcome h, recorded
HandleReqLog(s, req, h) ==
    [s |-> [h.s EXCEPT !.svc = Append(@, SvcRec(req, s, h))],
     ret |-> h.ret]

postcopy_outgoing_handle_req(s, req) == HandleReqLog(s, req, HandleReqBody(s, req))

\* the do-while loop of postcopy_outgoing_recv_handler: an iteration, the iteration
\* after postcopy_outgoing_recv_req returned r, and after the request was handled
RECURSIVE RecvHandlerLoop(_, _)
RECURSIVE RecvHandlerReceived(_, _)
RECURSIVE RecvHandlerHandled(_, _)
RecvHandlerHandled(h, q) ==
    IF h.ret = 0 /\ ~h.s.abort THEN RecvHandlerLoop(h.s, q)
    ELSE [s |-> h.s, q |-> q, ret |-> h.ret]

RecvHandlerReceived(s, r) ==
    IF r.ret < 0
    THEN [s |-> s, q |-> r.q, ret |-> IF r.ret = -EAGAIN THEN 0 ELSE r.ret]
    ELSE RecvHandlerHandled(postcopy_outgoing_handle_req(s, r.req), r.q)

RecvHandlerLoop(s, q) == RecvHandlerReceived(s, postcopy_outgoing_recv_req(q))

\* mutant: a failed request in ALL_PAGES_SENT goes to ERROR_RECEIVE
RecvHandlerEnd_m1(l) ==
    IF l.ret < 0
    THEN [l EXCEPT !.s.state = PO_STATE_ERROR_RECEIVE]
    ELSE l

\* postcopy_outgoing_recv_handler after the loop: the switch on s->state when ret < 0
RecvHandlerEnd(l) ==
    IF l.ret < 0
    THEN [l EXCEPT !.s.state =
            CASE l.s.state = PO_STATE_ACTIVE -> PO_STATE_ERROR_RECEIVE
              [] l.s.state = PO_STATE_ALL_PAGES_SENT -> PO_STATE_COMPLETED
              [] OTHER -> l.s.state,
          !.s.abort = l.s.abort \/
                      l.s.state \notin {PO_STATE_ACTIVE, PO_STATE_ALL_PAGES_SENT}]
    ELSE l

postcopy_outgoing_recv_handler(s, q) == RecvHandlerEnd(RecvHandlerLoop(s, q))

\* mutant: the END-OF-STREAM marker is not written
postcopy_outgoing_ram_all_sent_m1(s) ==
    [s EXCEPT !.state = PO_STATE_ALL_PAGES_SENT,
              !.abort = s.abort \/ s.state # PO_STATE_ACTIVE]

postcopy_outgoing_ram_all_sent(s) ==
    [s EXCEPT !.state = PO_STATE_ALL_PAGES_SENT, !.out = Append(@, EosRec),
              !.abort = s.abort \/ s.state # PO_STATE_ACTIVE]

\* position of a page in the walk over ram_list
RECURSIVE PagesBefore(_)
PagesBefore(b) == IF b = 1 THEN 0 ELSE PagesBefore(b - 1) + NrTargetPages(b - 1)
GlobalIdx(b, pg) == PagesBefore(b) + pg
TotalPages == PagesBefore(Len(RamList)) + NrTargetPages(Len(RamList))
DirtyPairs(s) == {<<b, pg>> \in Blocks \X (0..TotalPages) : pg \in s.dirty[b]}

\* ram_bytes_remaining() in pages
ram_bytes_remaining(s) == Cardinality(DirtyPairs(s))

\* distance of page x from the cursor in the cyclic walk over ram_list
WalkDist(s, x) ==
    (GlobalIdx(x[1], x[2]) - GlobalIdx(s.cursor.b, s.cursor.pg) + 2 * TotalPages)
        % TotalPages

\* the first dirty page at or after the cursor
NextDirty(s, dp) == CHOOSE x \in dp : \A y \in dp : WalkDist(s, x) <= WalkDist(s, y)

\* ram_save_block sends page nxt and leaves the cursor on it
RamSaveBlockAt(s, nxt) ==
    [s |-> [ram_save_page(s, nxt[1], nxt[2]) EXCEPT
               !.cursor = [b |-> nxt[1], pg |-> nxt[2]]],
     sent |-> TRUE]

\* ram_save_block(f, true, true): sends the first dirty page at or after the cursor,
\* wrapping around the block list; FALSE in .sent when no page is dirty
ram_save_block(s) ==
    IF DirtyPairs(s) = {} THEN [s |-> s, sent |-> FALSE]
    ELSE RamSaveBlockAt(s, NextDirty(s, DirtyPairs(s)))

\* the while loop of postcopy_outgoing_ram_save_background, left after at most k pages
RECURSIVE BackgroundLoop(_, _)
RECURSIVE BackgroundSent(_, _, _)
BackgroundSent(s, r, k) ==
    IF ~r.sent THEN postcopy_outgoing_ram_all_sent(s)
    ELSE IF k <= 1 THEN r.s
    ELSE BackgroundLoop(r.s, k - 1)

BackgroundLoop(s, k) == BackgroundSent(s, ram_save_block(s), k)

\* mutant: EOC_RECEIVED falls through to the background walk
postcopy_outgoing_ram_save_background_m1(s, k) ==
    CASE s.state \in {PO_STATE_ACTIVE, PO_STATE_EOC_RECEIVED} ->
            [s |-> BackgroundLoop([s EXCEPT !.state = PO_STATE_ACTIVE], k), ret |-> 0]
      [] s.state = PO_STATE_ERROR_RECEIVE -> [s |-> s, ret |-> -1]
      [] OTHER -> [s |-> [s EXCEPT !.abort = TRUE], ret |-> 0]

\* postcopy_outgoing_ram_save_background(ms, rlstat), left after at most k pages
postcopy_outgoing_ram_save_background(s, k) ==
    CASE s.state = PO_STATE_ACTIVE ->
            IF no_background
            THEN [s |-> IF ram_bytes_remaining(s) = 0
                        THEN postcopy_outgoing_ram_all_sent(s) ELSE s,
                  ret |-> 0]
            ELSE [s |-> BackgroundLoop(s, k), ret |-> 0]
      [] s.state = PO_STATE_EOC_RECEIVED ->
            [s |-> [s EXCEPT !.out = Append(@, EosRec), !.state = PO_STATE_COMPLETED],
             ret |-> 0]
      [] s.state = PO_STATE_ERROR_RECEIVE -> [s |-> s, ret |-> -1]
      [] OTHER -> [s |-> [s EXCEPT !.abort = TRUE], ret |-> 0]

----------------------------------------------------------------------------
(* Source: one iteration of the while loop of postcopy_outgoing, that is   *)
(* postcopy_outgoing_file -> postcopy_outgoing_loop -> select and the       *)
(* handler it dispatches to, followed by the loop's exit test.             *)

SrcRec == [state |-> po_state, last |-> src_last_block, dirty |-> dirty,
           cursor |-> bg_cursor, out |-> out_log, svc |-> svc_log,
           mark |-> eoc_mark, abort |-> FALSE]

\* mutant: select reports the read side only at end of file
Readable_m1(q) == q.closed

\* select reports the read side readable: bytes wait in the socket, or end of file
Readable(q) == q.sk # <<>> \/ q.closed

\* postcopy_outgoing_file: a latched file error turns the tick's result into -1
postcopy_outgoing_file(ret, q) == IF q.err THEN -1 ELSE ret

\* the exit test of the while loop of postcopy_outgoing
LoopContinues(s, ret) ==
    ret >= 0 /\ s.state # PO_STATE_ERROR_RECEIVE /\ s.state # PO_STATE_COMPLETED

SrcCommit(s, q, ret) ==
    /\ po_state' = s.state
    /\ src_last_block' = s.last
    /\ dirty' = s.dirty
    /\ bg_cursor' = s.cursor
    /\ out_log' = s.out
    /\ svc_log' = s.svc
    /\ eoc_mark' = s.mark
    /\ file_read' = q
    /\ src_ret' = postcopy_outgoing_file(ret, q)
    /\ src_pc' = IF s.abort THEN "aborted"
                 ELSE IF LoopContinues(s, postcopy_outgoing_file(ret, q)) THEN "loop"
                 ELSE "returned"
    /\ mig_stream' = IF mode \in Composite THEN mig_stream \o Drop(s.out, Len(out_log))
                     ELSE mig_stream

\* mutant: the read side is always put into readfds
ReadFdSet_m1(state) == TRUE

\* postcopy_outgoing_loop puts the read side into readfds, and the write side into
\* writefds, only in these states
ReadFdSet(state) == state \in {PO_STATE_ACTIVE, PO_STATE_ALL_PAGES_SENT}
WriteFdSet(state) == state \in {PO_STATE_ACTIVE, PO_STATE_EOC_RECEIVED}

\* tick in which select reports the read side: postcopy_outgoing_recv_handler
SrcCommitRecv(r) == SrcCommit(r.s, r.q, 0)

SrcRecvTick ==
    /\ mode \in Composite \cup {"src", "req"}
    /\ src_pc = "loop"
    /\ ReadFdSet(po_state)
    /\ Readable(file_read)
    /\ SrcCommitRecv(postcopy_outgoing_recv_handler(SrcRec, file_read))
    /\ UNCHANGED <<mode, hvars, pcvars, cfgvars, peer_sent, dstvars, cdvars>>

\* tick in which only the write side is ready: postcopy_outgoing_ram_save_background
SrcCommitBackground(r) == SrcCommit(r.s, file_read, r.ret)

SrcBackgroundTick ==
    /\ mode \in Composite \cup {"src", "req"}
    /\ src_pc = "loop"
    /\ WriteFdSet(po_state)
    /\ ReadFdSet(po_state) => ~Readable(file_read)
    /\ \E k \in 1..MaxBurst :
          /\ (po_state # PO_STATE_ACTIVE \/ no_background) => k = 1
          /\ SrcCommitBackground(postcopy_outgoing_ram_save_background(SrcRec, k))
    /\ UNCHANGED <<mode, hvars, pcvars, cfgvars, peer_sent, dstvars, cdvars>>

----------------------------------------------------------------------------
(* The peer of SpecSrc: writes any well-formed frame, or closes.            *)

PgoffSeqs(b) ==
    {<<p>> : p \in TargetPages(b)} \cup
    {<<p, p - 1>> : p \in TargetPages(b) \ {0}}

\* the block the source will apply a PAGE_CONT to, were it to service all frames sent
PeerReqs ==
    {Req(QEMU_UMEM_REQ_EOC, <<>>, <<>>)} \cup
    UNION {{Req(QEMU_UMEM_REQ_PAGE, IdStr(b), po) : po \in PgoffSeqs(b)} : b \in Blocks} \cup
    {Req(QEMU_UMEM_REQ_PAGE, UnknownId, <<0>>)} \cup
    {Req(QEMU_UMEM_REQ_PAGE_CONT, <<>>, po) :
        po \in IF peer_sent.last = NoBlock THEN {} ELSE PgoffSeqs(peer_sent.last)}

PeerSend ==
    /\ mode = "src"
    /\ peer_sent.n < MaxPeerFrames
    /\ ~file_read.closed
    /\ \E req \in PeerReqs :
          /\ peer_sent' = [n |-> peer_sent.n + 1,
                           last |-> IF req.cmd = QEMU_UMEM_REQ_PAGE
                                    THEN ram_find_block(req.idstr) ELSE peer_sent.last]
          /\ file_read' = [file_read EXCEPT !.sk = @ \o SendReqBytes(req)]
    /\ UNCHANGED <<mode, hvars, pcvars, cfgvars, po_state, src_last_block, dirty, bg_cursor, src_pc,
                   src_ret, out_log, svc_log, eoc_mark, mig_stream, dstvars, cdvars>>

PeerClose ==
    /\ mode = "src"
    /\ ~file_read.closed
    /\ file_read' = [file_read EXCEPT !.closed = TRUE]
    /\ UNCHANGED <<mode, hvars, pcvars, cfgvars, po_state, src_last_block, dirty, bg_cursor, src_pc,
                   src_ret, out_log, svc_log, eoc_mark, peer_sent, mig_stream, dstvars,
                   cdvars>>

----------------------------------------------------------------------------
(* Destination: incoming umem daemon.                                      *)

UMEM_STATE_EOS_RECEIVED == "EOS_RECEIVED"
UMEM_STATE_EOC_SEND_REQ == "EOC_SEND_REQ"
UMEM_STATE_EOC_SENDING == "EOC_SENDING"
UMEM_STATE_EOC_SENT == "EOC_SENT"
UMEM_STATE_QUIT_RECEIVED == "QUIT_RECEIVED"
UMEM_STATE_QUIT_HANDLED == "QUIT_HANDLED"
UMEM_STATE_QUIT_QUEUED == "QUIT_QUEUED"
UMEM_STATE_QUIT_SENDING == "QUIT_SENDING"
UMEM_STATE_QUIT_SENT == "QUIT_SENT"
UMEM_STATE_ERROR_REQ == "ERROR_REQ"
UMEM_STATE_ERROR_SENDING == "ERROR_SENDING"
\* 0x3000: the bits of ERROR_REQ (0x1000) and ERROR_SENDING (0x2000) together
UMEM_STATE_ERROR_SENT == {UMEM_STATE_ERROR_REQ, UMEM_STATE_ERROR_SENDING}

\* commands of the daemon to the supervisor
UMEM_DAEMON_QUIT == "UMEM_DAEMON_QUIT"
UMEM_DAEMON_ERROR == "UMEM_DAEMON_ERROR"

\* postcopy_incoming_umem_error_req
postcopy_incoming_umem_error_req(st) == st \cup {UMEM_STATE_ERROR_REQ}

UMEM_STATE_QUIT_MASK ==
    {UMEM_STATE_QUIT_QUEUED, UMEM_STATE_QUIT_SENDING, UMEM_STATE_QUIT_SENT,
     UMEM_STATE_QUIT_RECEIVED, UMEM_STATE_QUIT_HANDLED}
UMEM_STATE_END_MASK ==
    {UMEM_STATE_EOS_RECEIVED, UMEM_STATE_EOC_SEND_REQ, UMEM_STATE_EOC_SENDING,
     UMEM_STATE_EOC_SENT} \cup UMEM_STATE_QUIT_MASK

\* x >> k and x << k for a shift count 0 <= k
RECURSIVE ShiftRight(_, _)
ShiftRight(x, k) == IF k = 0 \/ x = 0 THEN x ELSE ShiftRight(x \div 2, k - 1)
ShiftLeft(x, k) == x * Pow2(k)

\* the count a shift by the int c is executed with: c itself when it is not negative;
\* a negative count is undefined, the machine takes it modulo the operand width
ShiftCounts(c) == IF c >= 0 THEN {c} ELSE {c % 32, c % 64}

\* umem_shmem_finished(block->umem): every host page of the block is cached
umem_shmem_finished(c, b) == HostPages(b) \subseteq c[b]

\* the daemon threads run until the state holds all of UMEM_STATE_END_MASK
DaemonRuns == ~(UMEM_STATE_END_MASK \subseteq umemd_state) /\ mig_read_pc # "aborted"

\* faults the guest may raise in the running specification
FaultBudget == IF mode = "umemd" THEN MaxUmemdFaults ELSE MaxFaults

\* a fault of the guest on host page h of block b: the backing store lists the page
\* until the daemon drains the list; a page that is cached does not fault
GuestFault ==
    /\ mode \in Composite
    /\ DaemonRuns
    /\ ~vm_stopped
    /\ nfaults < FaultBudget
    /\ \E b \in Blocks : \E h \in HostPages(b) \ cached[b] :
          /\ \A i \in 1..Len(fault_q[b]) : fault_q[b][i].pgoff # h
          /\ fault_q' = [fault_q EXCEPT ![b] =
                            Append(@, [pgoff |-> h, rcv |-> phys_received[b]])]
    /\ nfaults' = nfaults + 1
    /\ UNCHANGED <<mode, hvars, pcvars, cfgvars, srcvars, mig_stream, umemd_state, phys_requested,
                   phys_received, clean_bitmap, cached, last_block_write,
                   dst_last_block_read, mig_write_open, mig_read_open, mig_read_pc,
                   loaded, sup_quit, to_qemu_log, req_log, eoc_log, thrvars, cdvars>>

\* umem_get_page_request(block->umem, page_request): the pending faults of the block
umem_get_page_request(b) == fault_q[b]

\* the request builder's side of the daemon while a block is handled:
\* a = [requested (phys_requested of the block), req (req.pgoffs, each with the
\* received bits its fault saw), page_clean (page_clean->pgoffs)]

\* mutant: test_bit in place of test_and_set_bit, phys_requested is never set
SendPageReqTarget_m1(b, f, target_pgoff, a) ==
    IF (precopy_enabled /\ target_pgoff \in clean_bitmap[b])
       \/ target_pgoff \in phys_received[b]
    THEN [a EXCEPT !.page_clean = @ \o
             [j \in 1..nr_host_pages_per_target_page |-> f.pgoff + j - 1]]
    ELSE IF target_pgoff \notin a.requested
    THEN [a EXCEPT !.req = Append(@, [pg |-> target_pgoff, rcv |-> f.rcv])]
    ELSE a

\* the target >= host branch for the fault f, the host page being in target_pgoff
SendPageReqTarget(b, f, target_pgoff, a) ==
    IF (precopy_enabled /\ target_pgoff \in clean_bitmap[b])
       \/ target_pgoff \in phys_received[b]
    THEN [a EXCEPT !.page_clean = @ \o
             [j \in 1..nr_host_pages_per_target_page |-> f.pgoff + j - 1]]
    ELSE IF target_pgoff \notin a.requested
    THEN [a EXCEPT !.requested = @ \cup {target_pgoff},
                   !.req = Append(@, [pg |-> target_pgoff, rcv |-> f.rcv])]
    ELSE a

\* the target < host branch for the fault f, the host page starting at target_pgoff
SendPageReqHost(b, f, target_pgoff, a) ==
    IF \A j \in 0..(nr_target_pages_per_host_page - 1) :
           \/ precopy_enabled /\ (target_pgoff + j) \in clean_bitmap[b]
           \/ (target_pgoff + j) \in phys_received[b]
    THEN [a EXCEPT !.page_clean = Append(@, f.pgoff)]
    ELSE [a EXCEPT
             !.requested = @ \cup
                 {target_pgoff + j : j \in 0..(nr_target_pages_per_host_page - 1)},
             !.req = @ \o SelectSeq(
                 [j \in 1..nr_target_pages_per_host_page |->
                     [pg |-> target_pgoff + j - 1, rcv |-> f.rcv]],
                 LAMBDA x : x.pg \notin a.requested)]

\* one entry of page_request in the loop of postcopy_incoming_umem_send_page_req;
\* k is the count the shift by host_to_target_page_shift is executed with
SendPageReqStep(b, f, k, a) ==
    IF TARGET_PAGE_SIZE >= host_page_size
    THEN SendPageReqTarget(b, f, ShiftRight(f.pgoff, k), a)
    ELSE SendPageReqHost(b, f, ShiftLeft(f.pgoff, k), a)

RECURSIVE SendPageReqLoop(_, _, _, _)
SendPageReqLoop(b, fs, k, a) ==
    IF fs = <<>> THEN a
    ELSE SendPageReqLoop(b, Tail(fs), k, SendPageReqStep(b, Head(fs), k, a))

\* the request builder's side of the daemon: d = [requested, cached, last
\* (last_block_write), open (mig_write != NULL), wire (bytes written to mig_write),
\* log (pages named in frames), eoc (Len(log) at each EOC written)]

\* mutant: last_block_write is set whether or not a request was written
SendPageReqEmit_m1(d, b, a, sent) ==
    [d EXCEPT !.requested[b] = a.requested,
              !.cached[b] = @ \cup {a.page_clean[i] : i \in 1..Len(a.page_clean)},
              !.wire = IF sent
                       THEN @ \o SendReqBytes(
                                Req(IF d.last # b THEN QEMU_UMEM_REQ_PAGE
                                    ELSE QEMU_UMEM_REQ_PAGE_CONT,
                                    IF d.last # b THEN IdStr(b) ELSE <<>>,
                                    [i \in 1..Len(a.req) |-> a.req[i].pg]))
                       ELSE @,
              !.last = b,
              !.log = IF sent
                      THEN @ \o [i \in 1..Len(a.req) |->
                                    [block |-> b, pg |-> a.req[i].pg,
                                     loaded |-> b \in loaded, rcv |-> a.req[i].rcv]]
                      ELSE @]

\* the end of postcopy_incoming_umem_send_page_req: umem_mark_page_cached of page_clean,
\* and the request if it names a page and mig_write is open
SendPageReqEmit(d, b, a, sent) ==
    [d EXCEPT !.requested[b] = a.requested,
              !.cached[b] = @ \cup {a.page_clean[i] : i \in 1..Len(a.page_clean)},
              !.wire = IF sent
                       THEN @ \o SendReqBytes(
                                Req(IF d.last # b THEN QEMU_UMEM_REQ_PAGE
                                    ELSE QEMU_UMEM_REQ_PAGE_CONT,
                                    IF d.last # b THEN IdStr(b) ELSE <<>>,
                                    [i \in 1..Len(a.req) |-> a.req[i].pg]))
                       ELSE @,
              !.last = IF sent THEN b ELSE @,
              !.log = IF sent
                      THEN @ \o [i \in 1..Len(a.req) |->
                                    [block |-> b, pg |-> a.req[i].pg,
                                     loaded |-> b \in loaded, rcv |-> a.req[i].rcv]]
                      ELSE @]

\* mutant: the request is written whether or not mig_write is open
SendPageReqBuilt_m1(d, b, a) == SendPageReqEmit(d, b, a, Len(a.req) > 0)

SendPageReqBuilt(d, b, a) == SendPageReqEmit(d, b, a, Len(a.req) > 0 /\ d.open)

postcopy_incoming_umem_send_page_req(d, b, k) ==
    SendPageReqBuilt(d, b,
        SendPageReqLoop(b, umem_get_page_request(b), k,
                        [requested |-> d.requested[b], req |-> <<>>, page_clean |-> <<>>]))

\* the second QLIST_FOREACH of postcopy_incoming_umemd_mig_write_loop over the blocks
\* whose fd select reported readable
RECURSIVE MigWriteBlocks(_, _, _)
MigWriteBlocks(d, bs, k) ==
    IF bs = <<>> THEN d
    ELSE MigWriteBlocks(IF fault_q[Head(bs)] # <<>>
                        THEN postcopy_incoming_umem_send_page_req(d, Head(bs), k)
                        ELSE d,
                        Tail(bs), k)

\* postcopy_incoming_umem_check_eoc_req sends EOC: requested and neither sending nor sent
EocDue(st) ==
    /\ UMEM_STATE_EOC_SEND_REQ \in st
    /\ st \cap {UMEM_STATE_EOC_SENDING, UMEM_STATE_EOC_SENT} = {}

\* postcopy_incoming_umem_check_eoc_req on the builder's side d and the state word
postcopy_incoming_umem_check_eoc_req(d, st) ==
    IF ~EocDue(st) THEN [d |-> d, st |-> st]
    ELSE [d |-> [d EXCEPT !.wire = @ \o SendReqBytes(Req(QEMU_UMEM_REQ_EOC, <<>>, <<>>)),
                          !.eoc = Append(@, Len(d.log)),
                          !.open = FALSE],
          st |-> st \cup {UMEM_STATE_EOC_SENDING, UMEM_STATE_EOC_SENT}]

\* the builder's side before a tick
MigWriteRec == [requested |-> phys_requested, cached |-> cached,
                last |-> last_block_write, open |-> mig_write_open,
                wire |-> <<>>, log |-> req_log, eoc |-> eoc_log]

MigWriteCommit(e) ==
    /\ phys_requested' = e.d.requested
    /\ cached' = e.d.cached
    /\ last_block_write' = e.d.last
    /\ mig_write_open' = e.d.open
    /\ req_log' = e.d.log
    /\ eoc_log' = e.d.eoc
    /\ umemd_state' = e.st
    /\ file_read' = [file_read EXCEPT !.sk = @ \o e.d.wire]

\* one iteration of postcopy_incoming_umemd_mig_write_loop that has work to do
MigWriteTick ==
    /\ mode \in Composite
    /\ DaemonRuns
    /\ thr_pc.mig_write = "loop"
    /\ (\E b \in Blocks : fault_q[b] # <<>>) \/ EocDue(umemd_state)
    /\ \E k \in ShiftCounts(host_to_target_page_shift) :
          MigWriteCommit(postcopy_incoming_umem_check_eoc_req(
                             MigWriteBlocks(MigWriteRec, UMemBlocks, k), umemd_state))
    /\ fault_q' = [b \in Blocks |-> <<>>]
    /\ UNCHANGED <<mode, hvars, pcvars, cfgvars, po_state, src_last_block, dirty, bg_cursor, src_pc,
                   src_ret, out_log, svc_log, eoc_mark, peer_sent, mig_stream,
                   phys_received, clean_bitmap, nfaults, dst_last_block_read,
                   mig_read_open, mig_read_pc, loaded, sup_quit, to_qemu_log,
                   thrvars, cdvars>>

\* postcopy_incoming_umem_done: req_eoc and queue_quit_locked
postcopy_incoming_umem_done(st) ==
    st \cup {UMEM_STATE_EOC_SEND_REQ, UMEM_STATE_QUIT_QUEUED}

\* postcopy_incoming_umem_check_umem_done on the cached pages c and the state word
postcopy_incoming_umem_check_umem_done(c, st) ==
    IF \A b \in Blocks : umem_shmem_finished(c, b)
    THEN postcopy_incoming_umem_done(st)
    ELSE st

\* mutant: phys_requested is cleared instead of copied from phys_received
postcopy_incoming_umemd_read_clean_bitmap_done_m1(received) ==
    [requested |-> {}, clean |-> received]

\* postcopy_incoming_umemd_read_clean_bitmap_done(block): phys_requested and
\* clean_bitmap of the block, both copied from phys_received
postcopy_incoming_umemd_read_clean_bitmap_done(received) ==
    [requested |-> received, clean |-> received]

\* postcopy_incoming_umemd_read_clean_bitmap(f, idstr, ...): the bitmap is read into
\* phys_received, then copied
ReadCleanBitmapCommit(b, bits, done) ==
    /\ phys_received' = [phys_received EXCEPT ![b] = bits]
    /\ phys_requested' = [phys_requested EXCEPT ![b] = done.requested]
    /\ clean_bitmap' = [clean_bitmap EXCEPT ![b] = done.clean]
    /\ loaded' = loaded \cup {b}

postcopy_incoming_umemd_read_clean_bitmap(b, bits) ==
    ReadCleanBitmapCommit(b, bits, postcopy_incoming_umemd_read_clean_bitmap_done(bits))

\* mig-read thread, postcopy_incoming_umemd_mig_read_init: one record of the clean
\* bitmap preamble, or its terminator
LoadCleanBitmap ==
    /\ mode \in Composite
    /\ mig_read_pc = "init"
    /\ mig_stream # <<>>
    /\ Head(mig_stream).type \in {"bitmap", "bitmap_end"}
    /\ mig_stream' = Tail(mig_stream)
    /\ IF Head(mig_stream).type = "bitmap"
       THEN /\ postcopy_incoming_umemd_read_clean_bitmap(Head(mig_stream).block,
                                                         Head(mig_stream).bits)
            /\ UNCHANGED <<mig_read_pc, umemd_state, bitmap_pc>>
       ELSE /\ mig_read_pc' = "loop"
            /\ bitmap_pc' = 1
            /\ umemd_state' = postcopy_incoming_umem_check_umem_done(cached, umemd_state)
            /\ UNCHANGED <<phys_received, phys_requested, clean_bitmap, loaded>>
    /\ UNCHANGED <<mode, hvars, pcvars, cfgvars, srcvars, cached, fault_q, nfaults, last_block_write,
                   dst_last_block_read, mig_write_open, mig_read_open, sup_quit,
                   to_qemu_log, req_log, eoc_log, thr_pc, sup_read, vm_stopped,
                   last_load, cdvars>>

\* mutant: one host page for each target page
RamLoadedPages_m1(rcv, pgoff, bit0) == {pgoff}

\* the host pages postcopy_incoming_umem_ram_loaded puts in page_cached when the bit
\* was clear: rcv is phys_received with the bit set, bit0 is bit after
\* bit &= ~(nr_host_pages_per_target_page - 1)
RamLoadedPages(rcv, pgoff, bit0) ==
    IF TARGET_PAGE_SIZE >= host_page_size
    THEN {pgoff + i : i \in 0..(nr_host_pages_per_target_page - 1)}
    ELSE IF \A i \in 0..(nr_target_pages_per_host_page - 1) : (bit0 + i) \in rcv
    THEN {pgoff}
    ELSE {}

\* x & ~(m - 1) for m a power of two, or 0
AndNotMinus1(x, m) == IF m = 0 THEN 0 ELSE x - (x % m)

\* the outcome of the call: phys_received and the cached pages afterwards, and what
\* was passed to postcopy_incoming_umem_mark_cached
RamLoadedRec(b, bit, page_cached) ==
    [received |-> phys_received[b] \cup {bit},
     cached |-> cached[b] \cup page_cached,
     bit |-> bit,
     marked |-> page_cached]

RamLoadedBit(b, offset, bit) ==
    RamLoadedRec(b, bit,
                 IF bit \in phys_received[b] THEN {}
                 ELSE RamLoadedPages(phys_received[b] \cup {bit},
                                     ShiftRight(offset, host_page_shift),
                                     AndNotMinus1(bit, nr_host_pages_per_target_page)))

\* postcopy_incoming_umem_ram_loaded(block, offset): phys_received and the cached
\* pages of the block afterwards
postcopy_incoming_umem_ram_loaded(b, offset) ==
    RamLoadedBit(b, offset, ShiftRight(offset, TARGET_PAGE_BITS))

RamLoadCommit(b, l) ==
    /\ phys_received' = [phys_received EXCEPT ![b] = l.received]
    /\ cached' = [cached EXCEPT ![b] = l.cached]
    /\ dst_last_block_read' = b
    /\ last_load' = [block |-> b, pg |-> l.bit, first |-> l.bit \notin phys_received[b],
                     marked |-> l.marked, rcv |-> phys_received[b]]

\* mig-read thread, postcopy_incoming_umemd_mig_read_loop with mig_read open:
\* postcopy_incoming_umem_ram_load reads one record of the migration stream
MigReadTick ==
    /\ mode \in Composite \cup {"load"}
    /\ mig_read_pc = "loop"
    /\ DaemonRuns
    /\ mig_read_open
    /\ mig_stream # <<>>
    /\ mig_stream' = Tail(mig_stream)
    /\ IF Head(mig_stream).type = "eos"
       THEN /\ umemd_state' = umemd_state \cup
                   {UMEM_STATE_EOC_SEND_REQ, UMEM_STATE_QUIT_QUEUED,
                    UMEM_STATE_EOS_RECEIVED}
            /\ mig_read_open' = FALSE
            /\ UNCHANGED <<phys_received, cached, dst_last_block_read, mig_read_pc,
                           last_load>>
       ELSE IF umem_shmem_finished(cached, Head(mig_stream).block)
       THEN /\ mig_read_pc' = "aborted"
            /\ dst_last_block_read' = Head(mig_stream).block
            /\ UNCHANGED <<umemd_state, mig_read_open, phys_received, cached, last_load>>
       ELSE /\ RamLoadCommit(Head(mig_stream).block,
                             postcopy_incoming_umem_ram_loaded(
                                 Head(mig_stream).block,
                                 Head(mig_stream).pg * TARGET_PAGE_SIZE))
            /\ UNCHANGED <<umemd_state, mig_read_open, mig_read_pc>>
    /\ UNCHANGED <<mode, hvars, pcvars, cfgvars, srcvars, phys_requested, clean_bitmap, fault_q, nfaults,
                   last_block_write, mig_write_open, loaded, sup_quit, to_qemu_log,
                   req_log, eoc_log, thr_pc, bitmap_pc, sup_read, vm_stopped, cdvars>>

\* mutant: the error is latched before the test of umemd.mig_read
MigReadLoopClosed_m1(st) == postcopy_incoming_umem_error_req(st)

\* postcopy_incoming_umemd_mig_read_loop with umemd.mig_read == NULL: the state word
\* after the return of -EINVAL, which comes before postcopy_incoming_umem_error_req
MigReadLoopClosed(st) == st

\* mig-read thread, postcopy_incoming_umemd_mig_read_loop after END-OF-STREAM closed
\* mig_read: it returns -EINVAL before postcopy_incoming_umem_error_req is reached, and
\* postcopy_incoming_umemd_thread leaves its loop
MigReadClosed ==
    /\ mode \in Composite
    /\ mig_read_pc = "loop"
    /\ DaemonRuns
    /\ ~mig_read_open
    /\ mig_read_pc' = "exit"
    /\ umemd_state' = MigReadLoopClosed(umemd_state)
    /\ UNCHANGED <<mode, hvars, pcvars, cfgvars, srcvars, mig_stream, phys_requested,
                   phys_received,
                   clean_bitmap, cached, fault_q, nfaults, last_block_write,
                   dst_last_block_read, mig_write_open, mig_read_open, loaded, sup_quit,
                   to_qemu_log, req_log, eoc_log, thrvars, cdvars>>

\* mig-read thread: postcopy_incoming_umem_ram_load fails on the transport (a file error
\* on mig_read); postcopy_incoming_umemd_mig_read_loop latches the error and returns
\* it, and postcopy_incoming_umemd_thread leaves its loop
MigReadError ==
    /\ mode = "umemd"
    /\ mig_read_pc = "loop"
    /\ DaemonRuns
    /\ mig_read_open
    /\ umemd_state' = postcopy_incoming_umem_error_req(umemd_state)
    /\ mig_read_pc' = "exit"
    /\ UNCHANGED <<mode, hvars, pcvars, cfgvars, srcvars, mig_stream, phys_requested, phys_received,
                   clean_bitmap, cached, fault_q, nfaults, last_block_write,
                   dst_last_block_read, mig_write_open, mig_read_open, loaded, sup_quit,
                   to_qemu_log, req_log, eoc_log, thrvars, cdvars>>

\* the host pages postcopy_incoming_umemd_fault_clean_bitmap passes to
\* postcopy_incoming_umem_mark_cached for the block b
FaultCleanPages(b) ==
    IF TARGET_PAGE_SIZE >= host_page_size
    THEN {ShiftLeft(bit, target_to_host_page_shift) + i :
             bit \in clean_bitmap[b] \cap TargetPages(b),
             i \in 0..(nr_host_pages_per_target_page - 1)}
    ELSE {ShiftRight(bit, host_page_shift - TARGET_PAGE_BITS) :
             bit \in {x \in clean_bitmap[b] \cap TargetPages(b) :
                         /\ x % nr_target_pages_per_host_page = 0
                         /\ \A i \in 0..(nr_target_pages_per_host_page - 1) :
                                (x + i) \in clean_bitmap[b]}}

\* mutant: the walk finds no bit set in clean_bitmap
FaultCleanBlock_m1(b) == cached[b]

\* the cached pages of block b after the walk over its clean_bitmap
FaultCleanBlock(b) == cached[b] \cup FaultCleanPages(b)

\* the bitmap thread has been created and has returned
BitmapThreadDone == bitmap_pc = Len(UMemBlocks) + 1

\* one-shot bitmap thread, postcopy_incoming_umemd_fault_clean_bitmap: one block of the
\* QLIST_FOREACH over umemd.blocks
BitmapTick ==
    /\ mode = "umemd"
    /\ mig_read_pc # "aborted"
    /\ bitmap_pc \in 1..Len(UMemBlocks)
    /\ cached' = [cached EXCEPT ![UMemBlocks[bitmap_pc]] =
                      FaultCleanBlock(UMemBlocks[bitmap_pc])]
    /\ bitmap_pc' = bitmap_pc + 1
    /\ UNCHANGED <<mode, hvars, pcvars, cfgvars, srcvars, mig_stream, umemd_state, phys_requested,
                   phys_received, clean_bitmap, fault_q, nfaults, last_block_write,
                   dst_last_block_read, mig_write_open, mig_read_open, mig_read_pc,
                   loaded, sup_quit, to_qemu_log, req_log, eoc_log, thr_pc, sup_read,
                   vm_stopped, last_load, cdvars>>

\* fault thread, postcopy_incoming_umemd_fault_loop: the iteration that finds every
\* block finished; postcopy_incoming_umem_check_umem_done requests EOC and queues QUIT
FaultTick ==
    /\ mode = "umemd"
    /\ mig_read_pc # "aborted"
    /\ \A b \in Blocks : umem_shmem_finished(cached, b)
    /\ ~(postcopy_incoming_umem_done({}) \subseteq umemd_state)
    /\ umemd_state' = postcopy_incoming_umem_check_umem_done(cached, umemd_state)
    /\ UNCHANGED <<mode, hvars, pcvars, cfgvars, srcvars, mig_stream, phys_requested, phys_received,
                   clean_bitmap, cached, fault_q, nfaults, last_block_write,
                   dst_last_block_read, mig_write_open, mig_read_open, mig_read_pc,
                   loaded, sup_quit, to_qemu_log, req_log, eoc_log, thrvars, cdvars>>

\* postcopy_incoming_umem_recv_quit
postcopy_incoming_umem_recv_quit(st) ==
    IF UMEM_STATE_QUIT_RECEIVED \in st THEN st
    ELSE st \cup {UMEM_STATE_QUIT_RECEIVED, UMEM_STATE_QUIT_HANDLED}

\* the pipe thread's side of the daemon: p = [st (state word), log (commands written
\* to to_qemu), quit (sup_quit)]

\* postcopy_incoming_umemd_pipe_loop, from_qemu readable: UMEM_QEMU_QUIT is read
PipeLoopRead(p) ==
    IF p.quit.cmd = "sent" /\ UMEM_STATE_QUIT_RECEIVED \notin p.st
    THEN [p EXCEPT !.st = postcopy_incoming_umem_done(
                              postcopy_incoming_umem_recv_quit(p.st)),
                   !.quit.cmd = "read"]
    ELSE p

\* the error is to be reported: requested and not yet being sent
ErrorDue(st) == UMEM_STATE_ERROR_REQ \in st /\ UMEM_STATE_ERROR_SENDING \notin st

\* QUIT is to be written: queued and neither being sent nor sent
QuitDue(st) ==
    /\ UMEM_STATE_QUIT_QUEUED \in st
    /\ st \cap {UMEM_STATE_QUIT_SENDING, UMEM_STATE_QUIT_SENT} = {}

\* mutant: to_qemu is not closed when QUIT is written
ToQemuOpen_m1(st) == TRUE

\* umemd.to_qemu != NULL: it is closed when QUIT is written
ToQemuOpen(st) == UMEM_STATE_QUIT_SENDING \notin st

\* postcopy_incoming_umemd_pipe_loop, to_qemu != NULL: umem_daemon_error
PipeLoopError(p) ==
    IF ToQemuOpen(p.st) /\ ErrorDue(p.st)
    THEN [p EXCEPT !.st = (@ \cup {UMEM_STATE_ERROR_SENDING}) \cup UMEM_STATE_ERROR_SENT,
                   !.log = Append(@, UMEM_DAEMON_ERROR)]
    ELSE p

\* postcopy_incoming_umemd_pipe_loop, to_qemu != NULL: umem_daemon_quit and close
PipeLoopQuit(p) ==
    IF ToQemuOpen(p.st) /\ QuitDue(p.st)
    THEN [p EXCEPT !.st = @ \cup {UMEM_STATE_QUIT_SENDING, UMEM_STATE_QUIT_SENT},
                   !.log = Append(@, UMEM_DAEMON_QUIT)]
    ELSE p

postcopy_incoming_umemd_pipe_loop(p) == PipeLoopQuit(PipeLoopError(PipeLoopRead(p)))

PipeCommit(p) ==
    /\ umemd_state' = p.st
    /\ to_qemu_log' = p.log
    /\ sup_quit' = p.quit

\* pipe thread: one iteration of postcopy_incoming_umemd_pipe_loop that has work to do
PipeTick ==
    /\ mode = "umemd"
    /\ DaemonRuns
    /\ thr_pc.pipe = "loop"
    /\ \/ sup_quit.cmd = "sent"
       \/ ToQemuOpen(umemd_state) /\ (ErrorDue(umemd_state) \/ QuitDue(umemd_state))
    /\ PipeCommit(postcopy_incoming_umemd_pipe_loop(
                      [st |-> umemd_state, log |-> to_qemu_log, quit |-> sup_quit]))
    /\ UNCHANGED <<mode, hvars, pcvars, cfgvars, srcvars, mig_stream, phys_requested, phys_received,
                   clean_bitmap, cached, fault_q, nfaults, last_block_write,
                   dst_last_block_read, mig_write_open, mig_read_open, mig_read_pc,
                   loaded, req_log, eoc_log, thrvars, cdvars>>

\* the threads postcopy_incoming_umemd_thread runs, and where each is
UmemdThreads == {"mig_read", "mig_write", "pipe"}
ThreadPc(t) == IF t = "mig_read" THEN mig_read_pc ELSE thr_pc[t]

\* postcopy_incoming_umemd_thread: the test at the top of the loop finds the state word
\* to hold all of UMEM_STATE_END_MASK, and the thread returns
ThreadExit ==
    /\ mode = "umemd"
    /\ mig_read_pc # "aborted"
    /\ UMEM_STATE_END_MASK \subseteq umemd_state
    /\ \E t \in UmemdThreads :
          /\ ThreadPc(t) = "loop"
          /\ IF t = "mig_read"
             THEN mig_read_pc' = "exit" /\ UNCHANGED thr_pc
             ELSE thr_pc' = [thr_pc EXCEPT ![t] = "exit"] /\ UNCHANGED mig_read_pc
    /\ UNCHANGED <<mode, hvars, pcvars, cfgvars, srcvars, mig_stream, umemd_state, phys_requested,
                   phys_received, clean_bitmap, cached, fault_q, nfaults,
                   last_block_write, dst_last_block_read, mig_write_open, mig_read_open,
                   loaded, sup_quit, to_qemu_log, req_log, eoc_log, bitmap_pc, sup_read,
                   vm_stopped, last_load, cdvars>>

\* postcopy_incoming_umemd after its pthread_joins: every thread has returned
DaemonExited ==
    /\ \A t \in UmemdThreads : ThreadPc(t) = "exit"
    /\ precopy_enabled => BitmapThreadDone

\* supervisor, postcopy_incoming_qemu_queue_quit followed by
\* postcopy_incoming_qemu_check_quite_queued: UMEM_QEMU_QUIT is written once
postcopy_incoming_qemu_queue_quit(q, by) ==
    IF q.cmd # "none" THEN q
    ELSE [cmd |-> "sent", by |-> by, owed |-> \E b \in Blocks : dirty[b] # {}]

\* supervisor, postcopy_incoming_qemu_cleanup: qemu quits before post-copy completed
SupCleanup ==
    /\ mode = "umemd"
    /\ sup_quit.cmd = "none"
    /\ sup_quit' = postcopy_incoming_qemu_queue_quit(sup_quit, "cleanup")
    /\ UNCHANGED <<mode, hvars, pcvars, cfgvars, srcvars, mig_stream, umemd_state, phys_requested,
                   phys_received, clean_bitmap, cached, fault_q, nfaults,
                   last_block_write, dst_last_block_read, mig_write_open, mig_read_open,
                   mig_read_pc, loaded, to_qemu_log, req_log, eoc_log, thrvars, cdvars>>

\* supervisor, postcopy_incoming_qemu_handle_req: one command of the daemon
SupHandleReq ==
    /\ mode = "umemd"
    /\ sup_read < Len(to_qemu_log)
    /\ sup_read' = sup_read + 1
    /\ IF to_qemu_log[sup_read + 1] = UMEM_DAEMON_QUIT
       THEN /\ sup_quit' = postcopy_incoming_qemu_queue_quit(sup_quit, "handle_req")
            /\ UNCHANGED vm_stopped
       ELSE /\ vm_stopped' = TRUE
            /\ UNCHANGED sup_quit
    /\ UNCHANGED <<mode, hvars, pcvars, cfgvars, srcvars, mig_stream, umemd_state, phys_requested,
                   phys_received, clean_bitmap, cached, fault_q, nfaults,
                   last_block_write, dst_last_block_read, mig_write_open, mig_read_open,
                   mig_read_pc, loaded, to_qemu_log, req_log, eoc_log, thr_pc, bitmap_pc,
                   last_load, cdvars>>


----------------------------------------------------------------------------
(* Initial states.                                                         *)

\* the migration bitmap when the post-copy phase begins: everything dirty without
\* precopy (migration_bitmap_init), the pages precopy left dirty otherwise
InitDirty(pre, k) ==
    [b \in Blocks |-> IF pre THEN TargetPages(b) \ (0..(k - 1)) ELSE TargetPages(b)]

\* postcopy_outgoing_send_clean_bitmap: per block the complement of the dirty bitmap,
\* then the terminator
postcopy_outgoing_send_clean_bitmap(d) ==
    [i \in 1..Len(RamList) |->
        BitmapRec(RamList[i], TargetPages(RamList[i]) \ d[RamList[i]])]
    \o <<BitmapEndRec>>

\* state after postcopy_outgoing_begin, q being the read side QEMUFile
SrcInitFile(pre, k, q) ==
    /\ po_state = PO_STATE_ACTIVE
    /\ src_last_block = NoBlock
    /\ dirty = InitDirty(pre, k)
    /\ bg_cursor = [b |-> 1, pg |-> 0]
    /\ file_read = q
    /\ src_pc = "loop"
    /\ src_ret = 0
    /\ out_log = <<>>
    /\ svc_log = <<>>
    /\ eoc_mark = -1
    /\ peer_sent = [n |-> 0, last |-> NoBlock]

SrcInit(pre, k) == SrcInitFile(pre, k, FileInit)

\* the supervisor has not written UMEM_QEMU_QUIT
NoQuit == [cmd |-> "none", by |-> "none", owed |-> FALSE]

\* last_load before the first page was loaded
NoLoad == [block |-> NoBlock, pg |-> 0, first |-> FALSE, marked |-> {}, rcv |-> {}]

\* state of the daemon when postcopy_incoming_umemd has created its threads
\* the pending-clean thread before it is created, both fault pipes empty
NoPendThr == [pc |-> "none", blocks |-> <<>>, bit |-> 0, batch |-> <<>>, blk |-> NoBlock]

\* umemd.nr_pending_clean = 0 and block->nr_pending_clean = 0 of every block
NoPendNr == [total |-> 0, block |-> [b \in Blocks |-> 0]]
\* no thread of the two created, the daemon main thread before its joins
NoThrLife == [bitmap |-> 0, pending |-> 0, main |-> "run", joined |-> <<>>]
\* the supervisor's fault thread at its first read, both pipes empty
NoFaultIn == [pc |-> "loop", buf |-> <<>>, pipe |-> <<>>, back |-> <<>>, wrote |-> <<>>,
              eof |-> FALSE, back_closed |-> FALSE, closes |-> [read_fd |-> 0, write_fd |-> 0]]
HarnessIdle ==
    /\ pend_nr = NoPendNr
    /\ thr_life = NoThrLife
    /\ fault_in = NoFaultIn

PendIdle ==
    /\ pending_clean = [b \in Blocks |-> {}]
    /\ fault_pipe = <<>>
    /\ fault_back = <<>>
    /\ page_cached_nr = 0
    /\ bm_work = <<>>
    /\ pend_thr = NoPendThr
    /\ fault_thr = [umemd |-> "loop", qemu |-> "loop"]
    /\ unmap_calls = [b \in Blocks |-> 0]
    /\ pend_log = <<>>

DstInit ==
    /\ umemd_state = {}
    /\ phys_requested = [b \in Blocks |-> {}]
    /\ phys_received = [b \in Blocks |-> {}]
    /\ clean_bitmap = [b \in Blocks |-> {}]
    /\ cached = [b \in Blocks |-> {}]
    /\ fault_q = [b \in Blocks |-> <<>>]
    /\ nfaults = 0
    /\ last_block_write = NoBlock
    /\ dst_last_block_read = NoBlock
    /\ mig_write_open = TRUE
    /\ mig_read_open = TRUE
    /\ mig_read_pc = IF precopy_enabled THEN "init" ELSE "loop"
    /\ loaded = {}
    /\ sup_quit = NoQuit
    /\ to_qemu_log = <<>>
    /\ req_log = <<>>
    /\ eoc_log = <<>>
    /\ thr_pc = [t \in {"mig_write", "pipe"} |-> "loop"]
    /\ bitmap_pc = 0
    /\ sup_read = 0
    /\ vm_stopped = FALSE
    /\ last_load = NoLoad
    /\ PendIdle
    /\ HarnessIdle

CodecIdle ==
    /\ cd_todo = <<>>
    /\ cd_sent = <<>>
    /\ cd_wire = <<>>
    /\ cd_got = <<>>
    /\ cd_skipped = 0
    /\ cd_last = [res |-> "none", before |-> <<>>, after |-> <<>>]

CfgInit(r) ==
    /\ ratio = r
    /\ precopy_enabled \in BOOLEAN
    /\ prefault_forward \in 0..MaxPrefault
    /\ prefault_backward \in 0..MaxPrefault
    /\ no_background \in BOOLEAN

InitSrc ==
    /\ mode = "src"
    /\ CfgInit("eq")
    /\ \E k \in 0..MaxCleanPrefix :
          /\ (~precopy_enabled => k = 0)
          /\ SrcInit(precopy_enabled, k)
    /\ mig_stream = <<>>
    /\ DstInit
    /\ CodecIdle

NextSrc == SrcRecvTick \/ SrcBackgroundTick \/ PeerSend \/ PeerClose

SpecSrc == InitSrc /\ [][NextSrc]_vars

\* the request harness: the source engine with a peer that writes PAGE and PAGE_CONT
\* frames of any offsets, those one page past the end of the block included, and a
\* PAGE_CONT before any PAGE
InitReq ==
    /\ mode = "req"
    /\ ratio = "eq"
    /\ precopy_enabled = FALSE
    /\ prefault_forward \in 0..MaxReqPrefault
    /\ prefault_backward \in 0..MaxReqPrefault
    /\ no_background \in BOOLEAN
    /\ SrcInit(FALSE, 0)
    /\ mig_stream = <<>>
    /\ DstInit
    /\ CodecIdle

ReqPgoffSeqs(b) ==
    {<<p>> : p \in 0..NrTargetPages(b)} \cup
    {po \in {<<p, q>> : p \in TargetPages(b), q \in TargetPages(b)} :
        po[2] \in {po[1] - 1, po[1] + 1}}

ReqPeerReqs ==
    UNION {{Req(QEMU_UMEM_REQ_PAGE, IdStr(b), po) : po \in ReqPgoffSeqs(b)} : b \in Blocks}
    \cup {Req(QEMU_UMEM_REQ_PAGE_CONT, <<>>, po) :
             po \in ReqPgoffSeqs(IF peer_sent.last = NoBlock THEN 1 ELSE peer_sent.last)}

ReqPeerSend ==
    /\ mode = "req"
    /\ peer_sent.n < MaxReqFrames
    /\ \E req \in ReqPeerReqs :
          /\ peer_sent' = [n |-> peer_sent.n + 1,
                           last |-> IF req.cmd = QEMU_UMEM_REQ_PAGE
                                    THEN ram_find_block(req.idstr) ELSE peer_sent.last]
          /\ file_read' = [file_read EXCEPT !.sk = @ \o SendReqBytes(req)]
    /\ UNCHANGED <<mode, hvars, pcvars, cfgvars, po_state, src_last_block, dirty, bg_cursor, src_pc,
                   src_ret, out_log, svc_log, eoc_mark, mig_stream, dstvars, cdvars>>

NextReq == SrcRecvTick \/ SrcBackgroundTick \/ ReqPeerSend

SpecReq == InitReq /\ [][NextReq]_vars

\* the whole migration: the source after postcopy_outgoing_begin, which has written the
\* clean bitmap when precopy ran, and the daemon with its threads created
Init ==
    /\ mode = "full"
    /\ \E r \in Ratios : CfgInit(r)
    /\ \E k \in 0..MaxCleanPrefix :
          /\ (~precopy_enabled => k = 0)
          /\ SrcInit(precopy_enabled, k)
          /\ mig_stream = IF precopy_enabled
                          THEN postcopy_outgoing_send_clean_bitmap(InitDirty(TRUE, k))
                          ELSE <<>>
    /\ DstInit
    /\ CodecIdle

Next ==
    \/ SrcRecvTick
    \/ SrcBackgroundTick
    \/ GuestFault
    \/ MigWriteTick
    \/ LoadCleanBitmap
    \/ MigReadTick
    \/ MigReadClosed

Spec == Init /\ [][Next]_vars

\* the whole migration with every thread of the daemon and the supervisor: the threads
\* of Spec, the bitmap, fault and pipe threads, the supervisor's handler and cleanup,
\* and a transport that may fail under mig-read
InitUmemd ==
    /\ mode = "umemd"
    /\ \E r \in Ratios : CfgInit(r)
    /\ prefault_forward = 0
    /\ prefault_backward = 0
    /\ \E k \in 0..MaxUmemdCleanPrefix :
          /\ (~precopy_enabled => k = 0)
          /\ SrcInit(precopy_enabled, k)
          /\ mig_stream = IF precopy_enabled
                          THEN postcopy_outgoing_send_clean_bitmap(InitDirty(TRUE, k))
                          ELSE <<>>
    /\ DstInit
    /\ CodecIdle

NextUmemd ==
    \/ SrcRecvTick
    \/ SrcBackgroundTick
    \/ GuestFault
    \/ MigWriteTick
    \/ LoadCleanBitmap
    \/ MigReadTick
    \/ MigReadClosed
    \/ MigReadError
    \/ BitmapTick
    \/ FaultTick
    \/ PipeTick
    \/ ThreadExit
    \/ SupCleanup
    \/ SupHandleReq

SpecUmemd == InitUmemd /\ [][NextUmemd]_vars

\* the mig-read thread alone, reading a stream in which a peer writes page records of
\* any block and page, repeated ones included
InitLoad ==
    /\ mode = "load"
    /\ \E r \in Ratios : CfgInit(r)
    /\ ~precopy_enabled
    /\ prefault_forward = 0
    /\ prefault_backward = 0
    /\ ~no_background
    /\ SrcInit(FALSE, 0)
    /\ mig_stream = <<>>
    /\ DstInit
    /\ CodecIdle

StreamPeerSend ==
    /\ mode = "load"
    /\ peer_sent.n < MaxStreamRecs
    /\ \E b \in Blocks : \E pg \in TargetPages(b) :
          mig_stream' = Append(mig_stream, PageRec(b, pg))
    /\ peer_sent' = [peer_sent EXCEPT !.n = @ + 1]
    /\ UNCHANGED <<mode, hvars, pcvars, cfgvars, po_state, src_last_block, dirty, bg_cursor, file_read,
                   src_pc, src_ret, out_log, svc_log, eoc_mark, dstvars, cdvars>>

NextLoad == StreamPeerSend \/ MigReadTick

SpecLoad == InitLoad /\ [][NextLoad]_vars

\* the migration without precopy: no clean bitmap is sent and no bitmap thread is
\* created
InitFair == InitUmemd /\ ~precopy_enabled

NextFair ==
    \/ SrcRecvTick
    \/ SrcBackgroundTick
    \/ GuestFault
    \/ MigWriteTick
    \/ MigReadTick
    \/ MigReadClosed
    \/ MigReadError
    \/ FaultTick
    \/ PipeTick
    \/ ThreadExit
    \/ SupCleanup
    \/ SupHandleReq

\* when SrcRecvTick, SrcBackgroundTick and MigWriteTick can take a step that changes
\* the state: the guard of each, less the background tick that finds background
\* transfer disabled and pages still dirty, which does nothing
SrcRecvEnabled ==
    /\ mode \in Composite \cup {"src", "req"}
    /\ src_pc = "loop"
    /\ ReadFdSet(po_state)
    /\ Readable(file_read)
SrcBackgroundEnabled ==
    /\ mode \in Composite \cup {"src", "req"}
    /\ src_pc = "loop"
    /\ WriteFdSet(po_state)
    /\ ReadFdSet(po_state) => ~Readable(file_read)
    /\ (po_state = PO_STATE_ACTIVE /\ no_background) => \A b \in Blocks : dirty[b] = {}
MigWriteEnabled ==
    /\ mode \in Composite
    /\ DaemonRuns
    /\ thr_pc.mig_write = "loop"
    /\ (\E b \in Blocks : fault_q[b] # <<>>) \/ EocDue(umemd_state)

\* fair scheduling: the source loop, each daemon thread and the supervisor's handler is
\* a loop around select with a timeout, or a handler of the main loop, and runs again
\* while it has work.  For SrcRecvTick, SrcBackgroundTick and MigWriteTick weak
\* fairness is written out, with the predicates above in the place of ENABLED.  The guest's faults, a transport error and
\* the supervisor's cleanup are left to the environment.
Fairness ==
    /\ []<>~SrcRecvEnabled \/ []<><<SrcRecvTick>>_vars
    /\ []<>~SrcBackgroundEnabled \/ []<><<SrcBackgroundTick>>_vars
    /\ []<>~MigWriteEnabled \/ []<><<MigWriteTick>>_vars
    /\ WF_vars(MigReadTick)
    /\ WF_vars(MigReadClosed)
    /\ WF_vars(FaultTick)
    /\ WF_vars(PipeTick)
    /\ WF_vars(ThreadExit)
    /\ WF_vars(SupHandleReq)

\* the migration without precopy under fair scheduling
SpecFair == InitFair /\ [][NextFair]_vars /\ Fairness

----------------------------------------------------------------------------
(* Codec harness: a sender writes frames with postcopy_incoming_send_req_one,*)
(* the bytes reach the socket in arbitrary chunks, and the receiver calls   *)
(* postcopy_outgoing_recv_req whenever it likes.                            *)

CodecPgoffs == {[i \in 1..n |-> 257 + i] : n \in 0..MaxCodecNr}

CodecReqs ==
    {Req(QEMU_UMEM_REQ_EOC, <<>>, <<>>)} \cup
    {Req(QEMU_UMEM_REQ_PAGE, id, po) : id \in {IdStr(1), IdStr(1) \o IdStr(2)},
                                       po \in CodecPgoffs} \cup
    {Req(QEMU_UMEM_REQ_PAGE_CONT, <<>>, po) : po \in CodecPgoffs}

CodecFrameSeqs == UNION {[1..n -> CodecReqs] : n \in 1..MaxCodecFrames}

InitCodec ==
    /\ mode = "codec"
    /\ CfgInit("eq")
    /\ ~precopy_enabled /\ prefault_forward = 0 /\ prefault_backward = 0 /\ no_background
    /\ SrcInit(FALSE, 0)
    /\ mig_stream = <<>>
    /\ DstInit
    /\ cd_todo \in CodecFrameSeqs
    /\ cd_sent = <<>>
    /\ cd_wire = <<>>
    /\ cd_got = <<>>
    /\ cd_skipped = 0
    /\ cd_last = [res |-> "none", before |-> <<>>, after |-> <<>>]

CdWrite ==
    /\ mode \in {"codec", "trip"}
    /\ cd_todo # <<>>
    /\ cd_wire' = cd_wire \o postcopy_incoming_send_req_one(Head(cd_todo))
    /\ cd_sent' = Append(cd_sent, Head(cd_todo))
    /\ cd_todo' = Tail(cd_todo)
    /\ UNCHANGED <<mode, hvars, pcvars, cfgvars, srcvars, mig_stream, dstvars, cd_got, cd_skipped, cd_last>>

CdArrive ==
    /\ mode \in {"codec", "trip"}
    /\ \E k \in 1..Len(cd_wire) :
          /\ file_read' = [file_read EXCEPT !.sk = @ \o SubSeq(cd_wire, 1, k)]
          /\ cd_wire' = Drop(cd_wire, k)
    /\ UNCHANGED <<mode, hvars, pcvars, cfgvars, po_state, src_last_block, dirty, bg_cursor, src_pc,
                   src_ret, out_log, svc_log, eoc_mark, peer_sent, mig_stream, dstvars,
                   cd_todo, cd_sent, cd_got, cd_skipped, cd_last>>

CdRecv ==
    /\ mode \in {"codec", "trip"}
    /\ LET r == postcopy_outgoing_recv_req(file_read)
           before == file_read.fb \o file_read.sk
           after == r.q.fb \o r.q.sk
       IN  /\ file_read' = r.q
           /\ cd_last' = [res |-> IF r.ret = 0 THEN "ok" ELSE "again",
                          before |-> before, after |-> after]
           /\ cd_got' = IF r.ret = 0 THEN Append(cd_got, r.req) ELSE cd_got
           /\ cd_skipped' = IF r.ret = 0 THEN cd_skipped + Len(before) - Len(after)
                            ELSE cd_skipped
    /\ UNCHANGED <<mode, hvars, pcvars, cfgvars, po_state, src_last_block, dirty, bg_cursor, src_pc,
                   src_ret, out_log, svc_log, eoc_mark, peer_sent, mig_stream, dstvars,
                   cd_todo, cd_sent, cd_wire>>

NextCodec == CdWrite \/ CdArrive \/ CdRecv

SpecCodec == InitCodec /\ [][NextCodec]_vars

----------------------------------------------------------------------------
(* Round-trip harness: the codec harness with a read buffer of TripBufSize  *)
(* bytes in place of IO_BUF_SIZE.                                          *)

InitTrip ==
    /\ mode = "trip"
    /\ CfgInit("eq")
    /\ ~precopy_enabled /\ prefault_forward = 0 /\ prefault_backward = 0 /\ no_background
    /\ SrcInitFile(FALSE, 0, [FileInit EXCEPT !.cap = TripBufSize])
    /\ mig_stream = <<>>
    /\ DstInit
    /\ cd_todo \in CodecFrameSeqs
    /\ cd_sent = <<>>
    /\ cd_wire = <<>>
    /\ cd_got = <<>>
    /\ cd_skipped = 0
    /\ cd_last = [res |-> "none", before |-> <<>>, after |-> <<>>]

NextTrip == CdWrite \/ CdArrive \/ CdRecv

SpecTrip == InitTrip /\ [][NextTrip]_vars

----------------------------------------------------------------------------
(* Frame builder harness: postcopy_file_incoming_send_req is given one     *)
(* request and writes its frames one after the other.                      *)

\* lengths of the offset list around the multiples of MAX_PAGE_NR; the caller sends a
\* request only when it has at least one offset
FrameSizes ==
    {n \in {k * MAX_PAGE_NR + d : k \in 0..MaxChunks, d \in -2..2} : n >= 1}

\* RAMBlock.idstr holds up to 255 characters
FrameIds == {[i \in 1..l |-> 97] : l \in {1, 2, 255}}

FrameReqs ==
    {Req(QEMU_UMEM_REQ_EOC, <<>>, <<>>)} \cup
    {Req(QEMU_UMEM_REQ_PAGE, id, [i \in 1..n |-> i]) : id \in FrameIds, n \in FrameSizes}
    \cup {Req(QEMU_UMEM_REQ_PAGE_CONT, <<>>, [i \in 1..n |-> i]) : n \in FrameSizes}

InitFrame ==
    /\ mode = "frame"
    /\ CfgInit("eq")
    /\ ~precopy_enabled /\ prefault_forward = 0 /\ prefault_backward = 0 /\ no_background
    /\ SrcInit(FALSE, 0)
    /\ mig_stream = <<>>
    /\ DstInit
    /\ cd_todo \in {<<r>> : r \in FrameReqs}
    /\ cd_sent = <<>>
    /\ cd_wire = <<>>
    /\ cd_got = <<>>
    /\ cd_skipped = 0
    /\ cd_last = [res |-> "none", before |-> <<>>, after |-> <<>>]

\* the next call of postcopy_incoming_send_req_one in postcopy_file_incoming_send_req:
\* fr are all the frames of the request, cd_sent those written so far
FrWriteFrame(fr) ==
    /\ cd_sent' = Append(cd_sent, fr[Len(cd_sent) + 1])
    /\ cd_skipped' = cd_skipped + SendReqOneLen(fr[Len(cd_sent) + 1])
    /\ cd_last' = [cd_last EXCEPT !.res = IF Len(cd_sent) + 1 = Len(fr)
                                         THEN "done" ELSE "writing"]

FrWrite ==
    /\ mode = "frame"
    /\ cd_last.res # "done"
    /\ FrWriteFrame(postcopy_file_incoming_send_req(Head(cd_todo)))
    /\ UNCHANGED <<mode, hvars, pcvars, cfgvars, srcvars, mig_stream, dstvars, cd_todo, cd_wire, cd_got>>

NextFrame == FrWrite

SpecFrame == InitFrame /\ [][NextFrame]_vars

----------------------------------------------------------------------------
(* Clean bitmap harness: postcopy_outgoing_send_clean_bitmap writes the     *)
(* record of one RAM block, word by word.  A uint64_t is the set of its bit *)
(* positions that are 1.                                                    *)

\* largest block of the harness, in bitmap words
MaxBitmapWords == 2

\* postcopy_bitmap_to_uint64 applied at bit i of the bitmap: bit j of the value is
\* bit i + j of the bitmap
postcopy_bitmap_to_uint64(bitmap, i) == {j \in 0..63 : (i + j) \in bitmap}

\* postcopy_bitmap_length(length)
postcopy_bitmap_length(length) ==
    ((ShiftRight(length, TARGET_PAGE_BITS) + 63) \div 64) * 8

\* one full word when start % 64 = 0: val = ~postcopy_bitmap_to_uint64(...)
CleanWordAligned(bitmap, i) == (0..63) \ postcopy_bitmap_to_uint64(bitmap, i)

\* one full word otherwise: for (j = 0; j < 63; j++) if (!test_bit(i + j)) set_bit(j)
CleanWordUnaligned(bitmap, i) ==
    postcopy_bitmap_to_uint64({j \in 0..62 : (i + j) \notin bitmap}, 0)

\* the last, partial word: for (i = end_uint64; i < end; i++)
CleanWordTail(bitmap, end_uint64, end) ==
    postcopy_bitmap_to_uint64(
        {i - end_uint64 : i \in {k \in end_uint64..(end - 1) : k \notin bitmap}}, 0)

\* the words postcopy_outgoing_send_clean_bitmap puts for the block of pages
\* start..end-1, bitmap being the migration (dirty) bitmap
SendCleanBitmapWords(bitmap, start, end) ==
    LET end_uint64 == start + ((end - start) \div 64) * 64
        nfull == (end_uint64 - start) \div 64
    IN  [w \in 1..nfull |->
            IF start % 64 = 0
            THEN CleanWordAligned(bitmap, start + 64 * (w - 1))
            ELSE CleanWordUnaligned(bitmap, start + 64 * (w - 1))]
        \o (IF end_uint64 < end
            THEN <<CleanWordTail(bitmap, end_uint64, end)>> ELSE <<>>)

\* first page index of the block: a multiple of 64 or not
BitmapStarts == {0, 1, 64}
\* page counts around the multiples of 64
BitmapPages == {n \in {k * 64 + d : k \in 0..MaxBitmapWords, d \in {-1, 0, 1}} : n >= 1}
\* dirty pages of the block: all, none, or all but one page
BitmapDirty(start, n) ==
    LET pages == start..(start + n - 1)
    IN  {pages, {}} \cup {pages \ {c} : c \in pages}

BitmapBlocks ==
    UNION {{[start |-> st, npages |-> n, dirty |-> d] : d \in BitmapDirty(st, n)} :
           st \in BitmapStarts, n \in BitmapPages}

InitBitmap ==
    /\ mode = "bitmap"
    /\ CfgInit("eq")
    /\ precopy_enabled /\ prefault_forward = 0 /\ prefault_backward = 0 /\ no_background
    /\ SrcInit(FALSE, 0)
    /\ mig_stream = <<>>
    /\ DstInit
    /\ cd_todo \in {<<b>> : b \in BitmapBlocks}
    /\ cd_sent = <<>>
    /\ cd_wire = <<>>
    /\ cd_got = <<>>
    /\ cd_skipped = 0
    /\ cd_last = [res |-> "none", before |-> <<>>, after |-> <<>>]

\* idstr, offset, length and the declared bitmap length (lines 579-588)
BmPutHeader ==
    /\ mode = "bitmap"
    /\ cd_last.res = "none"
    /\ cd_got' = <<postcopy_bitmap_length(Head(cd_todo).npages * TARGET_PAGE_SIZE)>>
    /\ cd_last' = [cd_last EXCEPT !.res = "header"]
    /\ UNCHANGED <<mode, hvars, pcvars, cfgvars, srcvars, mig_stream, dstvars, cd_todo, cd_sent,
                   cd_wire, cd_skipped>>

\* the next qemu_put_be64 of the block's bitmap, or the end of the block when no word
\* is left
BmPutWords(ws) ==
    IF Len(cd_sent) < Len(ws)
    THEN /\ cd_sent' = Append(cd_sent, ws[Len(cd_sent) + 1])
         /\ cd_skipped' = cd_skipped + 8
         /\ cd_last' = [cd_last EXCEPT !.res = "writing"]
    ELSE /\ cd_last' = [cd_last EXCEPT !.res = "done"]
         /\ UNCHANGED <<cd_sent, cd_skipped>>

BmPutWord ==
    /\ mode = "bitmap"
    /\ cd_last.res \in {"header", "writing"}
    /\ BmPutWords(SendCleanBitmapWords(Head(cd_todo).dirty, Head(cd_todo).start,
                                       Head(cd_todo).start + Head(cd_todo).npages))
    /\ UNCHANGED <<mode, hvars, pcvars, cfgvars, srcvars, mig_stream, dstvars, cd_todo, cd_wire, cd_got>>

NextBitmap == BmPutHeader \/ BmPutWord

SpecBitmap == InitBitmap /\ [][NextBitmap]_vars

----------------------------------------------------------------------------
(* Pending-clean harness: the stream reader and the clean-bitmap worker    *)
(* call postcopy_incoming_umem_mark_cached against a fault pipe of         *)
(* PipeCapNr offsets; the pending-clean thread drains what met would-block, *)
(* the supervisor's fault thread reads the pipe and writes the offsets     *)
(* back, and the daemon's fault thread runs the completion check.          *)

\* PIPE_BUF / sizeof(uint64_t) in the harness
PipeBufNr == 2
\* offsets a pipe holds before a write would block
PipeCapNr == 2
\* calls of umem_unmap_shmem counted per block
MaxUnmap == 3

\* the specifications in which the pending-clean thread runs
PendModes == {"pending", "threads"}

\* UMemBlock.offset: the blocks lie one after the other in the ram address space
RECURSIVE BlockOffset(_)
BlockOffset(b) == IF b = 1 THEN 0 ELSE BlockOffset(b - 1) + BlockLength(b - 1)

\* a set of offsets in ascending order, and a sequence cut into chunks of n
RECURSIVE Ascending(_)
Ascending(S) ==
    IF S = {} THEN <<>>
    ELSE LET lo == CHOOSE x \in S : \A y \in S : x <= y
         IN  <<lo>> \o Ascending(S \ {lo})
RECURSIVE Chunks(_, _)
Chunks(s, n) ==
    IF s = <<>> THEN <<>>
    ELSE <<SubSeq(s, 1, Min(n, Len(s)))>> \o Chunks(Drop(s, Min(n, Len(s))), n)
SeqRange(s) == {s[i] : i \in 1..Len(s)}

\* the QLIST_FOREACH of postcopy_incoming_umem_mark_pending_clean for one entry: the
\* block whose [offset, offset + length) holds addr, NoBlock when there is none
BlockOfAddr(addr) ==
    IF \E b \in Blocks : BlockOffset(b) <= addr /\ addr < BlockOffset(b) + BlockLength(b)
    THEN CHOOSE b \in Blocks :
             BlockOffset(b) <= addr /\ addr < BlockOffset(b) + BlockLength(b)
    ELSE NoBlock

\* test_and_set_bit of the entry pgoff, taken as pgoff << host_page_shift in the ram
\* address space
MarkPendingEntry(p, pgoff, b) ==
    IF b = NoBlock THEN p
    ELSE [p EXCEPT ![b] = @ \cup
             {ShiftRight(ShiftLeft(pgoff, host_page_shift) - BlockOffset(b),
                         host_page_shift)}]

\* postcopy_incoming_umem_mark_pending_clean: the loop over the entries it reads
RECURSIVE postcopy_incoming_umem_mark_pending_clean(_, _)
postcopy_incoming_umem_mark_pending_clean(p, seen) ==
    IF seen = <<>> THEN p
    ELSE postcopy_incoming_umem_mark_pending_clean(
             MarkPendingEntry(p, Head(seen),
                              BlockOfAddr(ShiftLeft(Head(seen), host_page_shift))),
             Tail(seen))

\* mutant: the counters go up for every entry, set before or not
TestAndSetBit_m1(p, b, bit) == FALSE
\* test_and_set_bit(pgoff, block->pending_clean_bitmap): the value the bit had
TestAndSetBit(p, b, bit) == bit \in p[b]

\* block->nr_pending_clean++ and umemd.nr_pending_clean++
IncPendNr(c, b) == [total |-> c.total + 1, block |-> [c.block EXCEPT ![b] = @ + 1]]

\* the counters after the loop of postcopy_incoming_umem_mark_pending_clean: both go
\* up for an entry whose bit was clear
RECURSIVE MarkPendingNr(_, _, _)
MarkPendingNr(c, p, seen) ==
    IF seen = <<>> THEN c
    ELSE LET b == BlockOfAddr(ShiftLeft(Head(seen), host_page_shift))
             bit == ShiftRight(ShiftLeft(Head(seen), host_page_shift) - BlockOffset(b),
                               host_page_shift)
         IN  MarkPendingNr(IF b # NoBlock /\ ~TestAndSetBit(p, b, bit)
                           THEN IncPendNr(c, b) ELSE c,
                           MarkPendingEntry(p, Head(seen), b), Tail(seen))

\* what an entry of the caller's buffer beyond those it filled may hold
StalePgoffs == 0..ShiftRight(BlockOffset(Len(RamList)) + BlockLength(Len(RamList)),
                             host_page_shift)

\* the entries the loop reads: i < umemd.page_cached->nr of the caller's page_cached,
\* which holds batch and, beyond it, whatever the buffer held
SeenEntries(batch, nr) ==
    IF nr <= Len(batch) THEN {SubSeq(batch, 1, nr)}
    ELSE {batch \o t : t \in [1..(nr - Len(batch)) -> StalePgoffs]}

\* postcopy_incoming_umem_fault_request(page_cached, true): chunks of at most PIPE_BUF
\* bytes are written until one meets would-block
RECURSIVE FaultRequestNonblock(_, _)
FaultRequestNonblock(pipe, batch) ==
    IF batch = <<>> THEN [pipe |-> pipe, again |-> FALSE]
    ELSE IF Len(pipe) + Min(PipeBufNr, Len(batch)) <= PipeCapNr
    THEN FaultRequestNonblock(pipe \o SubSeq(batch, 1, Min(PipeBufNr, Len(batch))),
                              Drop(batch, Min(PipeBufNr, Len(batch))))
    ELSE [pipe |-> pipe, again |-> TRUE]

AgainRec(caller, b, batch, after) ==
    [kind |-> "again", caller |-> caller, block |-> b, batch |-> batch,
     before |-> pending_clean, after |-> after]

\* postcopy_incoming_umem_mark_cached(block->umem, page_cached) by caller, nr being
\* umemd.page_cached->nr at the call; with the supervisor's end closed the write fails
postcopy_incoming_umem_mark_cached(b, batch, nr, caller) ==
    /\ cached' = [cached EXCEPT ![b] = @ \cup SeqRange(batch)]
    /\ IF fault_thr.qemu = "closed"
       THEN UNCHANGED <<fault_pipe, pending_clean, pend_log, pend_nr>>
       ELSE /\ fault_pipe' = FaultRequestNonblock(fault_pipe, batch).pipe
            /\ IF FaultRequestNonblock(fault_pipe, batch).again
               THEN \E seen \in SeenEntries(batch, nr) :
                       /\ pending_clean' =
                              postcopy_incoming_umem_mark_pending_clean(pending_clean, seen)
                       /\ pend_nr' = MarkPendingNr(pend_nr, pending_clean, seen)
                       /\ pend_log' = Append(pend_log,
                              AgainRec(caller, b, batch,
                                  postcopy_incoming_umem_mark_pending_clean(
                                      pending_clean, seen)))
               ELSE UNCHANGED <<pending_clean, pend_log, pend_nr>>

\* stream reader, postcopy_incoming_umem_ram_load for a page record of block b, target
\* page pg, not received before, followed by postcopy_incoming_umem_ram_loaded
PcRamLoad ==
    /\ mode \in PendModes
    /\ mig_read_pc = "loop"
    /\ fault_thr.umemd # "freed"
    /\ \E b \in Blocks : \E pg \in TargetPages(b) \ phys_received[b] :
          LET l == postcopy_incoming_umem_ram_loaded(b, pg * TARGET_PAGE_SIZE)
          IN  /\ ~umem_shmem_finished(cached, b)
              /\ phys_received' = [phys_received EXCEPT ![b] = l.received]
              /\ dst_last_block_read' = b
              /\ page_cached_nr' = Cardinality(l.marked)
              /\ IF l.marked = {}
                 THEN UNCHANGED <<cached, fault_pipe, pending_clean, pend_log, pend_nr>>
                 ELSE postcopy_incoming_umem_mark_cached(
                          b, Ascending(l.marked), Cardinality(l.marked), "ram_loaded")
              /\ mig_read_pc' = IF l.marked # {} /\ fault_thr.qemu = "closed"
                                THEN "exit" ELSE "loop"
    /\ UNCHANGED <<mode, thr_life, fault_in, cfgvars, srcvars, mig_stream, cdvars, umemd_state,
                   phys_requested, clean_bitmap, fault_q, nfaults, last_block_write,
                   mig_write_open, mig_read_open, loaded, sup_quit, to_qemu_log,
                   req_log, eoc_log, thrvars, fault_back, bm_work, pend_thr, fault_thr,
                   unmap_calls>>

\* postcopy_incoming_umemd_fault_clean_bitmap: max_nr, needed, and the batches it
\* passes to mark_cached for block b
BitmapMaxNr == PipeBufNr
BitmapNeeded ==
    IF TARGET_PAGE_SIZE >= host_page_size THEN nr_host_pages_per_target_page ELSE 1
FaultCleanBatches(b) ==
    Chunks(Ascending(FaultCleanPages(b)), (BitmapMaxNr \div BitmapNeeded) * BitmapNeeded)
BitmapWork ==
    Flatten([i \in 1..Len(UMemBlocks) |->
                [k \in 1..Len(FaultCleanBatches(UMemBlocks[i])) |->
                    [block |-> UMemBlocks[i],
                     pgoffs |-> FaultCleanBatches(UMemBlocks[i])[k]]]])

\* the pending-clean thread as postcopy_incoming_umemd_pending_clean_create starts it
PendThrIdle == [NoPendThr EXCEPT !.pc = "idle"]

\* postcopy_incoming_umemd_pending_clean_create: qemu_thread_create of
\* umemd.pending_clean_thread
postcopy_incoming_umemd_pending_clean_create ==
    /\ pend_thr' = PendThrIdle
    /\ thr_life' = [thr_life EXCEPT !.pending = @ + 1]

\* clean-bitmap worker: one call of mark_cached; a failed write ends the walk
PcBitmapBatch ==
    /\ mode \in PendModes
    /\ bm_work # <<>>
    /\ postcopy_incoming_umem_mark_cached(Head(bm_work).block, Head(bm_work).pgoffs,
                                          page_cached_nr, "bitmap")
    /\ bm_work' = IF fault_thr.qemu = "closed" THEN <<>> ELSE Tail(bm_work)
    /\ UNCHANGED <<mode, thr_life, fault_in, cfgvars, srcvars, mig_stream, cdvars, umemd_state,
                   phys_requested, phys_received, clean_bitmap, fault_q, nfaults,
                   last_block_write, dst_last_block_read, mig_write_open, mig_read_open,
                   mig_read_pc, loaded, sup_quit, to_qemu_log, req_log, eoc_log,
                   thrvars, fault_back, page_cached_nr, pend_thr, fault_thr,
                   unmap_calls>>

\* clean-bitmap worker at out: postcopy_incoming_umemd_pending_clean_create
PcBitmapDone ==
    /\ mode \in PendModes
    /\ thr_life.bitmap > 0
    /\ bm_work = <<>>
    /\ pend_thr.pc = "none"
    /\ postcopy_incoming_umemd_pending_clean_create
    /\ UNCHANGED <<mode, pend_nr, fault_in, cfgvars, srcvars, mig_stream, cdvars, dstvars, pending_clean,
                   fault_pipe, fault_back, page_cached_nr, bm_work, fault_thr,
                   unmap_calls, pend_log>>

\* mutant: only the counter of the first block of umemd.blocks is read
nr_pending_clean_m1(c) == c.block[UMemBlocks[1]]

\* umemd.nr_pending_clean as the pending-clean thread and the daemon read it
nr_pending_clean(c) == c.total

\* pending-clean thread at the top of its loop with bits pending: it leaves the mutex
\* for postcopy_incoming_umem_wait_fault_write_fd
PcWake ==
    /\ mode \in PendModes
    /\ pend_thr.pc = "idle"
    /\ nr_pending_clean(pend_nr) # 0
    /\ pend_thr' = [pend_thr EXCEPT !.pc = "waitfd"]
    /\ UNCHANGED <<mode, hvars, cfgvars, srcvars, mig_stream, cdvars, dstvars, pending_clean,
                   fault_pipe, fault_back, page_cached_nr, bm_work, fault_thr,
                   unmap_calls, pend_log>>

\* select reports the pipe writable (or closed), the thread sleeps, takes the mutex
\* and enters postcopy_incoming_umemd_pending_clean_loop
PcWaitFd ==
    /\ mode \in PendModes
    /\ pend_thr.pc = "waitfd"
    /\ Len(fault_pipe) < PipeCapNr \/ fault_thr.qemu = "closed"
    /\ pend_thr' = [pend_thr EXCEPT !.pc = "scan", !.blocks = UMemBlocks, !.bit = 0]
    /\ UNCHANGED <<mode, hvars, cfgvars, srcvars, mig_stream, cdvars, dstvars, pending_clean,
                   fault_pipe, fault_back, page_cached_nr, bm_work, fault_thr,
                   unmap_calls, pend_log>>

\* postcopy_incoming_umemd_pending_clean_loop: max_nr and the bits one run of the for
\* loop takes from bit on before it leaves the mutex
PendingMaxNr == PipeBufNr - 1
ScanBatch(b, bit) ==
    IF bit = 0 /\ pend_nr.block[b] = 0 THEN <<>>
    ELSE SubSeq(Ascending({h \in pending_clean[b] : h >= bit}), 1,
                Min(PendingMaxNr, Cardinality({h \in pending_clean[b] : h >= bit})))

\* block->nr_pending_clean-- and umemd.nr_pending_clean-- for every bit taken
DecPendNr(c, b, n) == [total |-> c.total - n, block |-> [c.block EXCEPT ![b] = @ - n]]

\* the thread after the scan of the head block from bit on took batch
ScanTaken(t, batch) ==
    IF Len(batch) = PendingMaxNr
    THEN [t EXCEPT !.pc = "write", !.batch = batch, !.blk = Head(t.blocks),
                   !.bit = batch[Len(batch)] + 1]
    ELSE IF batch # <<>>
    THEN [t EXCEPT !.pc = "write", !.batch = batch, !.blk = Head(t.blocks),
                   !.blocks = Tail(t.blocks), !.bit = 0]
    ELSE [t EXCEPT !.blocks = Tail(t.blocks), !.bit = 0]

\* the scan under the mutex; after the last block the loop returns to the thread
PcScan ==
    /\ mode \in PendModes
    /\ pend_thr.pc = "scan"
    /\ IF pend_thr.blocks = <<>>
       THEN /\ pend_thr' = PendThrIdle
            /\ UNCHANGED <<pending_clean, pend_nr>>
       ELSE /\ pend_thr' = ScanTaken(pend_thr,
                                     ScanBatch(Head(pend_thr.blocks), pend_thr.bit))
            /\ pend_nr' = DecPendNr(pend_nr, Head(pend_thr.blocks),
                                    Len(ScanBatch(Head(pend_thr.blocks), pend_thr.bit)))
            /\ pending_clean' =
                   [pending_clean EXCEPT ![Head(pend_thr.blocks)] =
                       @ \ SeqRange(ScanBatch(Head(pend_thr.blocks), pend_thr.bit))]
    /\ UNCHANGED <<mode, thr_life, fault_in, cfgvars, srcvars, mig_stream, cdvars, dstvars, fault_pipe,
                   fault_back, page_cached_nr, bm_work, fault_thr, unmap_calls,
                   pend_log>>

DrainRec(b, batch) ==
    [kind |-> "drain", caller |-> "pending_clean", block |-> b, batch |-> batch,
     before |-> pending_clean, after |-> pending_clean]

\* postcopy_incoming_umem_fault_request(page_cached, false) outside the mutex: the
\* write goes through once the pipe has room; with the supervisor's end closed it
\* fails, the loop closes fault_write_fd and the thread returns
PcWrite ==
    /\ mode \in PendModes
    /\ pend_thr.pc = "write"
    /\ IF fault_thr.qemu = "closed"
       THEN /\ pend_thr' = [pend_thr EXCEPT !.pc = "exit", !.batch = <<>>]
            /\ UNCHANGED <<fault_pipe, pend_log>>
       ELSE /\ Len(fault_pipe) + Len(pend_thr.batch) <= PipeCapNr
            /\ fault_pipe' = fault_pipe \o pend_thr.batch
            /\ pend_log' = Append(pend_log, DrainRec(pend_thr.blk, pend_thr.batch))
            /\ pend_thr' = [pend_thr EXCEPT !.pc = "scan", !.batch = <<>>]
    /\ UNCHANGED <<mode, hvars, cfgvars, srcvars, mig_stream, cdvars, dstvars, pending_clean,
                   fault_back, page_cached_nr, bm_work, fault_thr, unmap_calls>>

\* supervisor, postcopy_incoming_fault_loop: one read of at most PIPE_BUF bytes, the
\* offsets are written back; the write fails once the daemon's fault thread has
\* closed its end, and the loop closes both pipes
PcPipeRead ==
    /\ mode \in PendModes
    /\ fault_thr.qemu = "loop"
    /\ fault_pipe # <<>>
    /\ fault_pipe' = Drop(fault_pipe, Min(PipeBufNr, Len(fault_pipe)))
    /\ IF fault_thr.umemd = "loop"
       THEN /\ Len(fault_back) + Min(PipeBufNr, Len(fault_pipe)) <= PipeCapNr
            /\ fault_back' = fault_back \o
                                 SubSeq(fault_pipe, 1, Min(PipeBufNr, Len(fault_pipe)))
            /\ UNCHANGED fault_thr
       ELSE /\ fault_thr' = [fault_thr EXCEPT !.qemu = "closed"]
            /\ UNCHANGED fault_back
    /\ UNCHANGED <<mode, hvars, cfgvars, srcvars, mig_stream, cdvars, dstvars, pending_clean,
                   page_cached_nr, bm_work, pend_thr, unmap_calls, pend_log>>

\* umem_unmap_shmem(block->umem): one more call for the block
umem_unmap_shmem(u, b) == [u EXCEPT ![b] = Min(@ + 1, MaxUnmap)]

\* the QLIST_FOREACH of postcopy_incoming_umem_check_umem_done: umem_unmap_shmem for
\* every finished block up to the first that is not
RECURSIVE CheckDoneUnmaps(_, _)
CheckDoneUnmaps(u, bs) ==
    IF bs = <<>> \/ ~umem_shmem_finished(cached, Head(bs)) THEN u
    ELSE CheckDoneUnmaps(umem_unmap_shmem(u, Head(bs)), Tail(bs))

\* daemon's fault thread, postcopy_incoming_umemd_fault_loop: the offsets written back
\* are read, then the completion check; the thread returns when every block is done
PcFaultLoop ==
    /\ mode \in PendModes
    /\ fault_thr.umemd = "loop"
    /\ fault_back # <<>>
    /\ fault_back' = <<>>
    /\ unmap_calls' = CheckDoneUnmaps(unmap_calls, UMemBlocks)
    /\ umemd_state' = postcopy_incoming_umem_check_umem_done(cached, umemd_state)
    /\ fault_thr' = IF \A b \in Blocks : umem_shmem_finished(cached, b)
                    THEN [fault_thr EXCEPT !.umemd = "exit"] ELSE fault_thr
    /\ UNCHANGED <<mode, hvars, cfgvars, srcvars, mig_stream, cdvars, phys_requested,
                   phys_received, clean_bitmap, cached, fault_q, nfaults,
                   last_block_write, dst_last_block_read, mig_write_open, mig_read_open,
                   mig_read_pc, loaded, sup_quit, to_qemu_log, req_log, eoc_log,
                   thrvars, pending_clean, fault_pipe, page_cached_nr, bm_work,
                   pend_thr, pend_log>>

\* postcopy_incoming_umem_block_free: umem_unmap_shmem for every block
BlockFreeUnmaps(u) == [b \in Blocks |-> umem_unmap_shmem(u, b)[b]]

\* the daemon after its threads have returned: pending_clean_exit, the join of the
\* pending-clean thread, the close of fault_write_fd, the join of the fault thread
\* and postcopy_incoming_umem_block_free
PcDaemonEnd ==
    /\ mode = "pending"
    /\ fault_thr.umemd = "exit"
    /\ bm_work = <<>>
    /\ \/ pend_thr.pc = "exit"
       \/ pend_thr.pc = "idle" /\ nr_pending_clean(pend_nr) = 0
    /\ pend_thr' = [pend_thr EXCEPT !.pc = "exit"]
    /\ fault_thr' = [fault_thr EXCEPT !.umemd = "freed"]
    /\ unmap_calls' = BlockFreeUnmaps(unmap_calls)
    /\ UNCHANGED <<mode, hvars, cfgvars, srcvars, mig_stream, cdvars, dstvars, pending_clean,
                   fault_pipe, fault_back, page_cached_nr, bm_work, pend_log>>

\* the daemon when its threads start: with precopy the clean bitmaps are loaded and
\* the clean-bitmap worker is about to run; umemd.page_cached comes from g_malloc,
\* so its nr holds any value
InitPending ==
    /\ mode = "pending"
    /\ ratio \in Ratios
    /\ precopy_enabled \in BOOLEAN
    /\ prefault_forward = 0
    /\ prefault_backward = 0
    /\ no_background = FALSE
    /\ SrcInit(FALSE, 0)
    /\ mig_stream = <<>>
    /\ CodecIdle
    /\ umemd_state = {}
    /\ clean_bitmap \in [Blocks -> SUBSET (0..(TotalPages - 1))]
    /\ \A b \in Blocks : clean_bitmap[b] \subseteq TargetPages(b)
    /\ ~precopy_enabled => \A b \in Blocks : clean_bitmap[b] = {}
    /\ phys_requested = clean_bitmap
    /\ phys_received = clean_bitmap
    /\ cached = [b \in Blocks |-> {}]
    /\ fault_q = [b \in Blocks |-> <<>>]
    /\ nfaults = 0
    /\ last_block_write = NoBlock
    /\ dst_last_block_read = NoBlock
    /\ mig_write_open = TRUE
    /\ mig_read_open = TRUE
    /\ mig_read_pc = "loop"
    /\ loaded = IF precopy_enabled THEN Blocks ELSE {}
    /\ sup_quit = NoQuit
    /\ to_qemu_log = <<>>
    /\ req_log = <<>>
    /\ eoc_log = <<>>
    /\ thr_pc = [t \in {"mig_write", "pipe"} |-> "loop"]
    /\ bitmap_pc = 0
    /\ sup_read = 0
    /\ vm_stopped = FALSE
    /\ last_load = NoLoad
    /\ pending_clean = [b \in Blocks |-> {}]
    /\ fault_pipe = <<>>
    /\ fault_back = <<>>
    /\ page_cached_nr \in 0..PipeBufNr
    /\ bm_work = IF precopy_enabled THEN BitmapWork ELSE <<>>
    /\ pend_thr = IF precopy_enabled THEN NoPendThr ELSE PendThrIdle
    /\ fault_thr = [umemd |-> "loop", qemu |-> "loop"]
    /\ unmap_calls = [b \in Blocks |-> 0]
    /\ pend_log = <<>>
    /\ pend_nr = NoPendNr
    /\ thr_life = [NoThrLife EXCEPT !.bitmap = IF precopy_enabled THEN 1 ELSE 0,
                                    !.pending = IF precopy_enabled THEN 0 ELSE 1]
    /\ fault_in = NoFaultIn

NextPending ==
    \/ PcRamLoad
    \/ PcBitmapBatch
    \/ PcBitmapDone
    \/ PcWake
    \/ PcWaitFd
    \/ PcScan
    \/ PcWrite
    \/ PcPipeRead
    \/ PcFaultLoop
    \/ PcDaemonEnd

SpecPending == InitPending /\ [][NextPending]_vars

\* fair scheduling of the harness: the pending-clean thread, the clean-bitmap worker
\* and the two fault threads are threads of their own, each blocked only in select,
\* read, write or on the condition variable, and run again once they can; what the
\* stream brings is left to the source, as is the end of the daemon
FairPending ==
    /\ WF_vars(PcBitmapBatch)
    /\ WF_vars(PcBitmapDone)
    /\ WF_vars(PcWake)
    /\ WF_vars(PcWaitFd)
    /\ WF_vars(PcScan)
    /\ WF_vars(PcWrite)
    /\ WF_vars(PcPipeRead)
    /\ WF_vars(PcFaultLoop)

SpecPendingFair == InitPending /\ [][NextPending]_vars /\ FairPending

----------------------------------------------------------------------------
(* The daemon's threads from creation to join (SpecThreads): the pending-   *)
(* clean harness from before postcopy_incoming_umemd_mig_read_init, with    *)
(* the joins of postcopy_incoming_umemd.                                    *)

\* mig-read thread, postcopy_incoming_umemd_mig_read_init as init_func of
\* postcopy_incoming_umemd_thread: without precopy the pending-clean thread is
\* created; with precopy the clean bitmaps are read, and the bitmap thread is created
\* when the read returned 0; otherwise the thread latches the error and returns
ThrMigReadInit ==
    /\ mode = "threads"
    /\ mig_read_pc = "init"
    /\ IF ~precopy_enabled
       THEN /\ postcopy_incoming_umemd_pending_clean_create
            /\ mig_read_pc' = "loop"
            /\ UNCHANGED <<bm_work, umemd_state>>
       ELSE \E ret \in {0, -EINVAL} :
               IF ret = 0
               THEN /\ thr_life' = [thr_life EXCEPT !.bitmap = @ + 1]
                    /\ bm_work' = BitmapWork
                    /\ mig_read_pc' = "loop"
                    /\ UNCHANGED <<pend_thr, umemd_state>>
               ELSE /\ umemd_state' = postcopy_incoming_umem_error_req(umemd_state)
                    /\ mig_read_pc' = "exit"
                    /\ UNCHANGED <<pend_thr, thr_life, bm_work>>
    /\ UNCHANGED <<mode, pend_nr, fault_in, cfgvars, srcvars, mig_stream, cdvars,
                   phys_requested, phys_received, clean_bitmap, cached, fault_q,
                   nfaults, last_block_write, dst_last_block_read, mig_write_open,
                   mig_read_open, loaded, sup_quit, to_qemu_log, req_log, eoc_log,
                   thrvars, pending_clean, fault_pipe, fault_back, page_cached_nr,
                   fault_thr, unmap_calls, pend_log>>

\* mig-read thread: its loop ends, by UMEM_STATE_END_MASK or by an error of
\* postcopy_incoming_umemd_mig_read_loop
ThrMigReadReturn ==
    /\ mode = "threads"
    /\ mig_read_pc = "loop"
    /\ mig_read_pc' = "exit"
    /\ UNCHANGED <<mode, hvars, cfgvars, srcvars, mig_stream, cdvars, umemd_state,
                   phys_requested, phys_received, clean_bitmap, cached, fault_q,
                   nfaults, last_block_write, dst_last_block_read, mig_write_open,
                   mig_read_open, loaded, sup_quit, to_qemu_log, req_log, eoc_log,
                   thrvars, pcvars>>

\* supervisor, postcopy_incoming_fault_loop: a read error, both pipes are closed
ThrSupervisorFail ==
    /\ mode = "threads"
    /\ fault_thr.qemu = "loop"
    /\ fault_thr' = [fault_thr EXCEPT !.qemu = "closed"]
    /\ UNCHANGED <<mode, hvars, cfgvars, srcvars, mig_stream, cdvars, dstvars,
                   pending_clean, fault_pipe, fault_back, page_cached_nr, bm_work,
                   pend_thr, unmap_calls, pend_log>>

\* one qemu_thread_join of postcopy_incoming_umemd, with the calls of
\* qemu_thread_create for that thread before it
JoinRec(t, n) == [thread |-> t, made |-> n]

\* what main does after qemu_thread_join of a QemuThread no qemu_thread_create has
\* written: the behaviour is undefined, the call returns or the daemon dies in it
JoinOfNothing(next) == {next, "crashed"}

\* postcopy_incoming_umemd: qemu_thread_join(&umemd.mig_read_thread)
ThrJoinMigRead ==
    /\ mode = "threads"
    /\ thr_life.main = "run"
    /\ mig_read_pc = "exit"
    /\ thr_life' = [thr_life EXCEPT !.main = IF precopy_enabled THEN "bitmap"
                                                                ELSE "pending"]
    /\ UNCHANGED <<mode, pend_nr, fault_in, cfgvars, srcvars, mig_stream, cdvars,
                   dstvars, pcvars>>

\* postcopy_incoming_umemd: if (umemd.precopy_enabled)
\* qemu_thread_join(&umemd.bitmap_thread); the worker has returned once it has
\* created the pending-clean thread
ThrJoinBitmap ==
    /\ mode = "threads"
    /\ thr_life.main = "bitmap"
    /\ IF thr_life.bitmap = 0
       THEN \E m \in JoinOfNothing("pending") :
               thr_life' = [thr_life EXCEPT
                               !.main = m,
                               !.joined = Append(@, JoinRec("bitmap", 0))]
       ELSE /\ bm_work = <<>>
            /\ pend_thr.pc # "none"
            /\ thr_life' = [thr_life EXCEPT
                               !.main = "pending",
                               !.joined = Append(@, JoinRec("bitmap", thr_life.bitmap))]
    /\ UNCHANGED <<mode, pend_nr, fault_in, cfgvars, srcvars, mig_stream, cdvars,
                   dstvars, pcvars>>

\* postcopy_incoming_umemd after the joins of the mig-write and pipe threads:
\* pending_clean_exit is set and qemu_thread_join(&umemd.pending_clean_thread); the
\* thread returns once it finds no bit pending, or has returned on a failed write
ThrJoinPending ==
    /\ mode = "threads"
    /\ thr_life.main = "pending"
    /\ IF thr_life.pending = 0
       THEN /\ \E m \in JoinOfNothing("done") :
                  thr_life' = [thr_life EXCEPT
                                  !.main = m,
                                  !.joined = Append(@, JoinRec("pending_clean", 0))]
            /\ UNCHANGED pend_thr
       ELSE /\ \/ pend_thr.pc = "exit"
               \/ pend_thr.pc = "idle" /\ nr_pending_clean(pend_nr) = 0
            /\ pend_thr' = [pend_thr EXCEPT !.pc = "exit"]
            /\ thr_life' = [thr_life EXCEPT
                               !.main = "done",
                               !.joined = Append(@, JoinRec("pending_clean",
                                                            thr_life.pending))]
    /\ UNCHANGED <<mode, pend_nr, fault_in, cfgvars, srcvars, mig_stream, cdvars,
                   dstvars, pending_clean, fault_pipe, fault_back, page_cached_nr,
                   bm_work, fault_thr, unmap_calls, pend_log>>

\* the daemon when postcopy_incoming_umemd has created the mig-read thread: no clean
\* bitmap worker and no pending-clean thread yet; clean_bitmap holds what the stream
\* brings when the read succeeds
InitThreads ==
    /\ mode = "threads"
    /\ ratio \in Ratios
    /\ precopy_enabled \in BOOLEAN
    /\ prefault_forward = 0
    /\ prefault_backward = 0
    /\ no_background = FALSE
    /\ SrcInit(FALSE, 0)
    /\ mig_stream = <<>>
    /\ CodecIdle
    /\ umemd_state = {}
    /\ clean_bitmap \in [Blocks -> SUBSET (0..(TotalPages - 1))]
    /\ \A b \in Blocks : clean_bitmap[b] \subseteq TargetPages(b)
    /\ ~precopy_enabled => \A b \in Blocks : clean_bitmap[b] = {}
    /\ phys_requested = clean_bitmap
    /\ phys_received = clean_bitmap
    /\ cached = [b \in Blocks |-> {}]
    /\ fault_q = [b \in Blocks |-> <<>>]
    /\ nfaults = 0
    /\ last_block_write = NoBlock
    /\ dst_last_block_read = NoBlock
    /\ mig_write_open = TRUE
    /\ mig_read_open = TRUE
    /\ mig_read_pc = "init"
    /\ loaded = IF precopy_enabled THEN Blocks ELSE {}
    /\ sup_quit = NoQuit
    /\ to_qemu_log = <<>>
    /\ req_log = <<>>
    /\ eoc_log = <<>>
    /\ thr_pc = [t \in {"mig_write", "pipe"} |-> "loop"]
    /\ bitmap_pc = 0
    /\ sup_read = 0
    /\ vm_stopped = FALSE
    /\ last_load = NoLoad
    /\ pending_clean = [b \in Blocks |-> {}]
    /\ fault_pipe = <<>>
    /\ fault_back = <<>>
    /\ page_cached_nr \in 0..PipeBufNr
    /\ bm_work = <<>>
    /\ pend_thr = NoPendThr
    /\ fault_thr = [umemd |-> "loop", qemu |-> "loop"]
    /\ unmap_calls = [b \in Blocks |-> 0]
    /\ pend_log = <<>>
    /\ HarnessIdle

NextThreads ==
    \/ ThrMigReadInit
    \/ ThrMigReadReturn
    \/ ThrSupervisorFail
    \/ ThrJoinMigRead
    \/ ThrJoinBitmap
    \/ ThrJoinPending
    \/ PcRamLoad
    \/ PcBitmapBatch
    \/ PcBitmapDone
    \/ PcWake
    \/ PcWaitFd
    \/ PcScan
    \/ PcWrite
    \/ PcPipeRead
    \/ PcFaultLoop

SpecThreads == InitThreads /\ [][NextThreads]_vars

----------------------------------------------------------------------------
(* The supervisor's fault thread (SpecFaultIn): postcopy_incoming_fault_    *)
(* thread reads the backing store's pipe byte by byte as read returns them  *)
(* and writes whole offsets to the daemon.                                  *)

\* sizeof(uint64_t)
SizeofU64 == 8
\* sizeof(buf) of postcopy_incoming_fault_loop, PIPE_BUF scaled down to two offsets
FaultBufSize == 16
\* offsets the backing store writes to the pipe during one run
MaxFaultInOffsets == 3
\* the offsets it writes: their bytes differ at the first two positions
FaultInOffsets == {1, 258}

\* the bytes of a uint64_t in memory, low byte first
RECURSIVE LE(_, _)
LE(n, w) == IF w = 0 THEN <<>> ELSE <<n % 256>> \o LE(n \div 256, w - 1)
U64Bytes(v) == LE(v, SizeofU64)
RECURSIVE OffsetBytes(_)
OffsetBytes(vs) == IF vs = <<>> THEN <<>> ELSE U64Bytes(Head(vs)) \o OffsetBytes(Tail(vs))

\* close(read_fd); close(write_fd);
CloseBoth(c) == [read_fd |-> c.read_fd + 1, write_fd |-> c.write_fd + 1]

\* the break out of the loop of postcopy_incoming_fault_loop: the loop closes both
\* descriptors and returns, and postcopy_incoming_fault_thread closes both after it
FaultLoopBreak(f) ==
    [f EXCEPT !.pc = "returned", !.closes = CloseBoth(CloseBoth(@))]

\* the loop after read returned n > 0 bytes: offset += ret, nreq whole offsets are
\* written with qemu_write_full, and memmove keeps the bytes after them
FaultLoopGot(f, n) ==
    LET data == f.buf \o SubSeq(f.pipe, 1, n)
        nreq == Len(data) \div SizeofU64
        g == [f EXCEPT !.pipe = Drop(f.pipe, n), !.buf = data]
    IN  IF nreq = 0 THEN g
        ELSE IF f.back_closed THEN FaultLoopBreak(g)
        ELSE [g EXCEPT !.back = @ \o SubSeq(data, 1, nreq * SizeofU64),
                       !.buf = Drop(data, nreq * SizeofU64)]

\* backing store: one offset is written to the pipe
FiWrite ==
    /\ mode = "fault_in"
    /\ fault_in.pc = "loop"
    /\ ~fault_in.eof
    /\ Len(fault_in.wrote) < MaxFaultInOffsets
    /\ \E v \in FaultInOffsets :
          fault_in' = [fault_in EXCEPT !.wrote = Append(@, v),
                                       !.pipe = @ \o U64Bytes(v)]
    /\ UNCHANGED <<mode, pend_nr, thr_life, cfgvars, srcvars, mig_stream, dstvars,
                   cdvars, pcvars>>

\* backing store: its end of the pipe is closed
FiWriterClose ==
    /\ mode = "fault_in"
    /\ fault_in.pc = "loop"
    /\ ~fault_in.eof
    /\ fault_in' = [fault_in EXCEPT !.eof = TRUE]
    /\ UNCHANGED <<mode, pend_nr, thr_life, cfgvars, srcvars, mig_stream, dstvars,
                   cdvars, pcvars>>

\* daemon: its read end of the second pipe is closed, writes to it fail from now on
FiDaemonClose ==
    /\ mode = "fault_in"
    /\ fault_in.pc = "loop"
    /\ ~fault_in.back_closed
    /\ fault_in' = [fault_in EXCEPT !.back_closed = TRUE]
    /\ UNCHANGED <<mode, pend_nr, thr_life, cfgvars, srcvars, mig_stream, dstvars,
                   cdvars, pcvars>>

\* postcopy_incoming_fault_thread, one turn of the loop of
\* postcopy_incoming_fault_loop: read fails, returns 0 at end of file, or returns
\* some of the bytes in the pipe, at most sizeof(buf) - offset
FiRead ==
    /\ mode = "fault_in"
    /\ fault_in.pc = "loop"
    /\ \/ fault_in' = FaultLoopBreak(fault_in)
       \/ /\ fault_in.pipe = <<>>
          /\ fault_in.eof
          /\ fault_in' = FaultLoopBreak(fault_in)
       \/ \E n \in 1..Min(Len(fault_in.pipe), FaultBufSize - Len(fault_in.buf)) :
             fault_in' = FaultLoopGot(fault_in, n)
    /\ UNCHANGED <<mode, pend_nr, thr_life, cfgvars, srcvars, mig_stream, dstvars,
                   cdvars, pcvars>>

InitFaultIn ==
    /\ mode = "fault_in"
    /\ CfgInit("eq")
    /\ ~precopy_enabled /\ prefault_forward = 0 /\ prefault_backward = 0 /\ no_background
    /\ SrcInit(FALSE, 0)
    /\ mig_stream = <<>>
    /\ DstInit
    /\ CodecIdle

NextFaultIn ==
    \/ FiWrite
    \/ FiWriterClose
    \/ FiDaemonClose
    \/ FiRead

SpecFaultIn == InitFaultIn /\ [][NextFaultIn]_vars

----------------------------------------------------------------------------
(* Properties of the destination daemon composed with the source (Spec).   *)

\* frames i and j of the request log name the same page of the same block
SamePage(i, j) ==
    /\ req_log[i].block = req_log[j].block
    /\ req_log[i].pg = req_log[j].pg

\* page p of block b was named in a PAGE / PAGE_CONT frame
Named(b, p) ==
    \E i \in 1..Len(req_log) : req_log[i].block = b /\ req_log[i].pg = p

C2_ReceivedSubset ==
    \A b \in Blocks : phys_received[b] \subseteq (phys_requested[b] \cup clean_bitmap[b])

\* C2 (amended): when the source neither prefaults nor pushes in the background, every
\* received page is clean or was named in an earlier request frame (its requested bit
\* may have been cleared by the clean-bitmap loader since).
C2_ReceivedWasNamedOrClean ==
    (prefault_forward = 0 /\ prefault_backward = 0 /\ no_background) =>
        \A b \in Blocks : \A p \in phys_received[b] :
            p \in clean_bitmap[b] \/ Named(b, p)

\* C2 witness: without prefault and background, a page that is not clean was received
\* after the loader had cleared its requested bit
C2_Witness ==
    /\ mode = "full"
    /\ prefault_forward = 0 /\ prefault_backward = 0 /\ no_background
    /\ \E b \in Blocks : \E p \in phys_received[b] :
          p \notin clean_bitmap[b] /\ p \notin phys_requested[b] /\ Named(b, p)

\* C3 (as claimed): once received[p] is set, a later fault on a host page covering p
\* produces no frame naming p.
C3_NoRequestAfterReceived ==
    \A i \in 1..Len(req_log) : req_log[i].pg \notin req_log[i].rcv

----------------------------------------------------------------------------
(* Properties of the source outgoing engine (checked under SpecSrc).        *)

PoFinal == {PO_STATE_COMPLETED, PO_STATE_ERROR_RECEIVE}

PoEdges == {<<PO_STATE_ACTIVE, PO_STATE_EOC_RECEIVED>>,
            <<PO_STATE_ACTIVE, PO_STATE_ALL_PAGES_SENT>>,
            <<PO_STATE_EOC_RECEIVED, PO_STATE_COMPLETED>>,
            <<PO_STATE_ALL_PAGES_SENT, PO_STATE_COMPLETED>>,
            <<PO_STATE_ACTIVE, PO_STATE_ERROR_RECEIVE>>}

EosCount == Cardinality({i \in 1..Len(out_log) : out_log[i].type = "eos"})
EocServiced == \E i \in 1..Len(svc_log) : svc_log[i].cmd = QEMU_UMEM_REQ_EOC

\* C5: the source state changes only along ACTIVE->EOC_RECEIVED, ACTIVE->ALL_PAGES_SENT,
\* EOC_RECEIVED->COMPLETED, ALL_PAGES_SENT->COMPLETED and ACTIVE->ERROR_RECEIVE;
\* COMPLETED and ERROR_RECEIVE are never left; and the loop of postcopy_outgoing
\* stops exactly when one of these two is reached or a tick returns an error.
C5_StateMachine ==
    [][ /\ (po_state' # po_state => <<po_state, po_state'>> \in PoEdges)
        /\ (po_state \in PoFinal => po_state' = po_state)
        /\ (src_pc = "loop" =>
              ((src_pc' = "returned") <=> (po_state' \in PoFinal \/ src_ret' < 0)))
        /\ (src_pc = "returned" => src_pc' = "returned") ]_vars

\* C5 witness: the loop has returned in COMPLETED after passing through EOC_RECEIVED
C5_Witness ==
    /\ mode = "src" /\ src_pc = "returned" /\ po_state = PO_STATE_COMPLETED
    /\ eoc_mark >= 0

\* C6: servicing EOC makes the state COMPLETED if all pages were already sent and
\* EOC_RECEIVED otherwise, and no request after the EOC is serviced.
C6_EocServicing ==
    \A i \in 1..Len(svc_log) :
        svc_log[i].cmd = QEMU_UMEM_REQ_EOC =>
            /\ i = Len(svc_log)
            /\ svc_log[i].after = IF svc_log[i].before = PO_STATE_ALL_PAGES_SENT
                                  THEN PO_STATE_COMPLETED ELSE PO_STATE_EOC_RECEIVED
            /\ po_state \in {svc_log[i].after, PO_STATE_COMPLETED}

\* C6 witness: EOC was serviced while a further request is still in the receive buffer
C6_Witness ==
    /\ mode = "src" /\ EocServiced
    /\ Len(file_read.fb \o file_read.sk) > 0
    /\ src_pc = "returned"

\* C7: once EOC_RECEIVED was entered no page record is written again; the only record
\* written afterwards is the END-OF-STREAM marker.
C7_NoPageAfterEoc ==
    eoc_mark >= 0 =>
        /\ Len(out_log) <= eoc_mark + 1
        /\ \A i \in (eoc_mark + 1)..Len(out_log) : out_log[i].type = "eos"

\* C7 witness: EOC arrived while pages were still dirty and the marker has been written
C7_Witness ==
    /\ mode = "src" /\ eoc_mark >= 0 /\ Len(out_log) = eoc_mark + 1
    /\ \E b \in Blocks : dirty[b] # {}

\* C8: when the source is COMPLETED it has written END-OF-STREAM exactly once, no page
\* record follows the marker, and the marker was written before the loop returned.
C8_EosOnce ==
    po_state = PO_STATE_COMPLETED =>
        /\ EosCount = 1
        /\ out_log[Len(out_log)].type = "eos"
        /\ src_pc = "returned"

\* C8 witness: COMPLETED was reached through ALL_PAGES_SENT, where a PAGE request was
\* still serviced after the marker
C8_Witness ==
    /\ mode = "src" /\ po_state = PO_STATE_COMPLETED
    /\ \E i \in 1..Len(svc_log) :
          /\ svc_log[i].before = PO_STATE_ALL_PAGES_SENT
          /\ svc_log[i].cmd = QEMU_UMEM_REQ_PAGE
          /\ svc_log[i].ret = 0

\* a request failed, or the peer's close was seen, before any EOC was serviced
FailedBeforeEoc ==
    /\ ~EocServiced
    /\ \/ file_read.err
       \/ \E i \in 1..Len(svc_log) : svc_log[i].ret < 0

\* C9 (as claimed): if the request connection is closed or a request cannot be handled
\* before EOC was received, the source ends in ERROR_RECEIVE, from ACTIVE and from
\* ALL_PAGES_SENT alike.
C9_ErrorState ==
    (src_pc = "returned" /\ FailedBeforeEoc) => po_state = PO_STATE_ERROR_RECEIVE

----------------------------------------------------------------------------
(* Properties of the request codec (checked under SpecCodec).               *)

EncLen(reqs) == Len(Flatten([i \in 1..Len(reqs) |-> postcopy_incoming_send_req_one(reqs[i])]))

\* C10: postcopy_outgoing_recv_req either returns a complete request and advances the
\* read cursor by exactly its encoded length, or returns try-again and advances by
\* zero bytes; once the bytes of the next request are all there it is parsed in full.
C10_PeekThenCommit ==
    mode = "codec" =>
        LET avail == file_read.fb \o file_read.sk
            r == postcopy_outgoing_recv_req(file_read)
        IN  /\ cd_last.res = "again" => cd_last.after = cd_last.before
            /\ Len(cd_got) <= Len(cd_sent)
            /\ cd_got = SubSeq(cd_sent, 1, Len(cd_got))
            /\ cd_skipped = EncLen(cd_got)
            /\ Len(cd_got) < Len(cd_sent) =>
                  LET nxt == cd_sent[Len(cd_got) + 1]
                      enc == postcopy_incoming_send_req_one(nxt)
                  IN  IF Len(avail) >= Len(enc)
                      THEN /\ r.ret = 0 /\ r.req = nxt
                           /\ r.q.fb \o r.q.sk = Drop(avail, Len(enc))
                      ELSE /\ r.ret = -EAGAIN
                           /\ r.q.fb \o r.q.sk = avail

\* C10 witness: after one request was parsed, a parse of a partial second request
\* returned try-again
C10_Witness ==
    /\ mode = "codec" /\ Len(cd_got) = 1
    /\ cd_last.res = "again" /\ Len(cd_last.before) > 1

----------------------------------------------------------------------------
(* Properties of the round trip (checked under SpecTrip).                   *)

\* the next request written and not yet decoded is in the file from the cursor on
NextFrameThere ==
    /\ Len(cd_got) < Len(cd_sent)
    /\ Len(file_read.fb \o file_read.sk) >=
           Len(postcopy_incoming_send_req_one(cd_sent[Len(cd_got) + 1]))

\* decoding yields the next request written and consumes exactly its bytes
DecodesNext ==
    LET r == postcopy_outgoing_recv_req(file_read)
        nxt == cd_sent[Len(cd_got) + 1]
    IN  /\ r.ret = 0
        /\ r.req = nxt
        /\ r.q.fb \o r.q.sk =
              Drop(file_read.fb \o file_read.sk, Len(postcopy_incoming_send_req_one(nxt)))

\* C11 (as claimed): for every request, decoding the bytes postcopy_incoming_send_req_one
\* produced yields the same cmd, id and offsets and consumes exactly those bytes.
C11_RoundTripAny ==
    (mode = "trip" /\ NextFrameThere) => DecodesNext

\* C11 (amended): the round trip holds for every request whose encoding is no longer
\* than the read buffer of the source; what was decoded is always what was written, in
\* order, and the cursor has advanced by exactly the encoded lengths.
C11_RoundTripFits ==
    mode = "trip" =>
        /\ Len(cd_got) <= Len(cd_sent)
        /\ cd_got = SubSeq(cd_sent, 1, Len(cd_got))
        /\ cd_skipped = EncLen(cd_got)
        /\ (NextFrameThere /\
            Len(postcopy_incoming_send_req_one(cd_sent[Len(cd_got) + 1])) <= file_read.cap)
               => DecodesNext

\* C11 witness: a PAGE request with a two-byte id and an offset came back from the
\* decoder, followed by a second request
C11_Witness ==
    /\ mode = "trip" /\ Len(cd_got) = 2
    /\ cd_got[1].cmd = QEMU_UMEM_REQ_PAGE
    /\ Len(cd_got[1].idstr) = 2 /\ Len(cd_got[1].pgoffs) >= 1

----------------------------------------------------------------------------
(* Properties of the frame builder (checked under SpecFrame).               *)

FrameOffsets(fr) == Flatten([i \in 1..Len(fr) |-> fr[i].pgoffs])

\* C12: for a PAGE or PAGE_CONT request with n offsets the builder writes a first frame
\* of the request's kind with min(n, MAX_PAGE_NR) offsets, then only PAGE_CONT frames of
\* at most MAX_PAGE_NR offsets; the frames' offsets concatenated are the request's;
\* n = MAX_PAGE_NR gives one frame, n = MAX_PAGE_NR + 1 one PAGE and one PAGE_CONT.
C12_Chunking ==
    (mode = "frame" /\ cd_last.res = "done" /\ Head(cd_todo).cmd # QEMU_UMEM_REQ_EOC) =>
        LET req == Head(cd_todo)
            n == Len(req.pgoffs)
        IN  /\ cd_sent[1].cmd = req.cmd
            /\ cd_sent[1].idstr = req.idstr
            /\ Len(cd_sent[1].pgoffs) = Min(n, MAX_PAGE_NR)
            /\ \A i \in 2..Len(cd_sent) :
                  /\ cd_sent[i].cmd = QEMU_UMEM_REQ_PAGE_CONT
                  /\ Len(cd_sent[i].pgoffs) \in 1..MAX_PAGE_NR
            /\ FrameOffsets(cd_sent) = req.pgoffs
            /\ n = MAX_PAGE_NR => Len(cd_sent) = 1
            /\ n = MAX_PAGE_NR + 1 =>
                  Len(cd_sent) = 2 /\ Len(cd_sent[2].pgoffs) = 1

\* C12 witness: a PAGE request of MAX_PAGE_NR + 1 offsets was written as two frames
C12_Witness ==
    /\ mode = "frame" /\ cd_last.res = "done"
    /\ Head(cd_todo).cmd = QEMU_UMEM_REQ_PAGE
    /\ Len(Head(cd_todo).pgoffs) = MAX_PAGE_NR + 1
    /\ Len(cd_sent) = 2

\* C13 (as claimed): every frame written is at most 32768 bytes long and carries at
\* most MAX_PAGE_NR = 4062 page offsets.
C13_FrameFits4062 ==
    mode = "frame" =>
        \A i \in 1..Len(cd_sent) :
            /\ SendReqOneLen(cd_sent[i]) <= 32768
            /\ Len(cd_sent[i].pgoffs) <= 4062

\* C13 (amended): every frame written is at most 32768 bytes long and carries at most
\* MAX_PAGE_NR page offsets, where MAX_PAGE_NR = (32768 - 260) / 8 rounded down = 4063;
\* the length counted is the length of the bytes written.
C13_FrameFits ==
    mode = "frame" =>
        /\ MAX_PAGE_NR = 4063
        /\ \A i \in 1..Len(cd_sent) :
              /\ SendReqOneLen(cd_sent[i]) <= 32768
              /\ SendReqOneLen(cd_sent[i]) <= IO_BUF_SIZE
              /\ Len(cd_sent[i].pgoffs) <= MAX_PAGE_NR
              /\ (Len(cd_sent[i].pgoffs) <= 2 /\ Len(cd_sent[i].idstr) <= 2) =>
                    Len(postcopy_incoming_send_req_one(cd_sent[i])) =
                        SendReqOneLen(cd_sent[i])

\* C13 witness: a PAGE frame with a 255-byte id and MAX_PAGE_NR offsets was written,
\* 32765 bytes long
C13_Witness ==
    /\ mode = "frame"
    /\ \E i \in 1..Len(cd_sent) :
          /\ cd_sent[i].cmd = QEMU_UMEM_REQ_PAGE
          /\ Len(cd_sent[i].idstr) = 255
          /\ Len(cd_sent[i].pgoffs) = MAX_PAGE_NR
          /\ SendReqOneLen(cd_sent[i]) = 32765

----------------------------------------------------------------------------
(* Properties of the daemon with all its threads.                          *)

\* C14: the EOC request is written to the source at most once, and no PAGE or
\* PAGE_CONT frame is written after it: when EOC was written, req_log has not grown
\* since.
C14_EocOnceThenSilent ==
    /\ Len(eoc_log) <= 1
    /\ eoc_log # <<>> => Len(req_log) = eoc_log[1]

\* a run in which EOC was written and a later fault was drained by the request
\* builder's thread: the page is marked requested, and no frame names it
C14_Witness ==
    /\ mode = "umemd"
    /\ ~precopy_enabled
    /\ eoc_log # <<>>
    /\ ~mig_write_open
    /\ UMEM_STATE_EOC_SENT \in umemd_state
    /\ \E b \in Blocks : phys_requested[b] # {} /\
          \E p \in phys_requested[b] : \A i \in 1..Len(req_log) :
              ~(req_log[i].block = b /\ req_log[i].pg = p)

\* the host page that holds the target page of the last load, and whether every target
\* page of it is received once the load has set its bit
LoadHostPage == last_load.pg \div nr_target_pages_per_host_page
LoadCompletes ==
    \A i \in 0..(nr_target_pages_per_host_page - 1) :
        (LoadHostPage * nr_target_pages_per_host_page + i) \in
            (last_load.rcv \cup {last_load.pg})

\* C18: with a host page of N target pages, the stream reader passes host page h to
\* mark_cached exactly when the arriving target page completes h: nothing is marked
\* while a target page of h is missing, and h is marked when its last missing target
\* page arrives, whichever host page of the block h is.
C18_MarkWhenComplete ==
    (ratio = "host_gt_tgt" /\ last_load.block # NoBlock) =>
        last_load.marked = IF last_load.first /\ LoadCompletes
                           THEN {LoadHostPage} ELSE {}

\* C19: with N host pages in a target page, the first arrival of target page t passes
\* exactly the N host pages of t to mark_cached, and a repeated arrival of t passes
\* none.
C19_SplitMark ==
    (ratio = "tgt_gt_host" /\ last_load.block # NoBlock) =>
        last_load.marked =
            IF last_load.first
            THEN {last_load.pg * nr_host_pages_per_target_page + i :
                     i \in 0..(nr_host_pages_per_target_page - 1)}
            ELSE {}

\* a target page arrived for the second time, its host pages being cached since its
\* first arrival
C19_Witness ==
    /\ mode = "load"
    /\ ratio = "tgt_gt_host"
    /\ nr_host_pages_per_target_page = 2
    /\ last_load.block # NoBlock
    /\ ~last_load.first
    /\ last_load.pg \in last_load.rcv
    /\ {2 * last_load.pg, 2 * last_load.pg + 1} \subseteq cached[last_load.block]

\* the target pages that make up host page h
HostPageTargets(h) ==
    IF TARGET_PAGE_SIZE >= host_page_size
    THEN {h \div nr_host_pages_per_target_page}
    ELSE {h * nr_target_pages_per_host_page + i :
             i \in 0..(nr_target_pages_per_host_page - 1)}

\* the host pages of block b all of whose target pages are clean
FullyClean(b) == {h \in HostPages(b) : HostPageTargets(h) \subseteq clean_bitmap[b]}

----------------------------------------------------------------------------
(* Liveness of the daemon under fair scheduling.                           *)

\* an error was latched into the state word
ErrorLatched == UMEM_STATE_ERROR_REQ \in umemd_state

\* C17: once a worker latches ERROR_REQ, the mig-read, mig-write and pipe threads
\* eventually leave their loops and postcopy_incoming_umemd gets past its joins.
C17_ErrorWindsDown == ErrorLatched ~> DaemonExited

\* every block's backing store reports finished()
AllFinished == \A b \in Blocks : umem_shmem_finished(cached, b)

\* the supervisor wrote QUIT on its own, before the daemon asked to quit
QuitByCleanup == sup_quit.by = "cleanup"

\* C15: with finitely many dirty pages, a transport that delivers and fair scheduling,
\* every block's backing store eventually reports finished().  Runs in which the
\* transport fails or the supervisor tears the daemon down are not claimed, nor are
\* runs without background transfer, where a page the guest never touches is never
\* sent.
C15_EventuallyFinished ==
    <>(AllFinished \/ no_background \/ ErrorLatched \/ QuitByCleanup)

\* the supervisor wrote QUIT while the source still had dirty pages
QuitMidFlight == QuitByCleanup /\ sup_quit.owed

\* the daemon wrote EOC, the source went through EOC_RECEIVED to COMPLETED, and every
\* thread of the daemon has returned with the state word equal to UMEM_STATE_END_MASK
QuitOutcome ==
    /\ eoc_log # <<>>
    /\ eoc_mark >= 0
    /\ po_state = PO_STATE_COMPLETED
    /\ DaemonExited
    /\ umemd_state = UMEM_STATE_END_MASK

\* the statement of C16 with the source's path as the spec words it: through
\* EOC_RECEIVED.  It fails already when the source has written its last page and
\* entered ALL_PAGES_SENT before the EOC arrives.
QuitWindsDownThroughEoc == QuitMidFlight ~> (QuitOutcome \/ ErrorLatched)

\* as QuitOutcome, the source having reached COMPLETED from either EOC_RECEIVED or
\* ALL_PAGES_SENT
QuitOutcomeEither ==
    /\ eoc_log # <<>>
    /\ po_state = PO_STATE_COMPLETED
    /\ DaemonExited
    /\ umemd_state = UMEM_STATE_END_MASK

\* C16: if the supervisor sends QUIT while pages are still owed, then under fair
\* scheduling, and unless the transport fails, the daemon writes EOC, the source
\* reaches COMPLETED, and every worker exits with the state word equal to exactly
\* END_MASK.
C16_QuitWindsDown == QuitMidFlight ~> (QuitOutcomeEither \/ ErrorLatched)


----------------------------------------------------------------------------
(* Properties of the clean bitmap sender (SpecBitmap).                     *)

\* bit p of the bitmap data sent (bit p % 64 of word p \div 64)
SentCleanBit(p) == (p % 64) \in cd_sent[(p \div 64) + 1]

\* C21: when the record of a block has been written, whatever the alignment of the
\* block's first page index modulo 64: bit p of the bitmap sent is set exactly when
\* p is below the block's page count and page p is not dirty on the source, and the
\* number of bitmap bytes sent equals the declared bitmap_bytes.
C21_CleanBitmapComplement ==
    (mode = "bitmap" /\ cd_last.res = "done") =>
        LET b == Head(cd_todo)
        IN  /\ cd_skipped = cd_got[1]
            /\ Len(cd_sent) * 8 = cd_got[1]
            /\ \A p \in 0..(Len(cd_sent) * 64 - 1) :
                   SentCleanBit(p) <=> (p < b.npages /\ (b.start + p) \notin b.dirty)


----------------------------------------------------------------------------
(* Properties of request servicing on the source (SpecReq).                *)

\* the entries of the service log that are PAGE or PAGE_CONT requests serviced with
\* pages still to send
PageServices ==
    {i \in 1..Len(svc_log) :
        /\ svc_log[i].cmd \in {QEMU_UMEM_REQ_PAGE, QEMU_UMEM_REQ_PAGE_CONT}
        /\ svc_log[i].ret = 0
        /\ svc_log[i].before # PO_STATE_ALL_PAGES_SENT}

\* the order the specification gives for a request: o1..on, then oi + j for
\* j = 1..F, then oi - j for j = 1..B
ReqOrder(po, F, B) ==
    po \o Flatten([j \in 1..F |-> [i \in 1..Len(po) |-> po[i] + j]])
       \o Flatten([j \in 1..B |-> [i \in 1..Len(po) |-> po[i] - j]])

\* the page offsets of the records written for entry e
SentPgoffs(e) == [k \in 1..Len(e.sent) |-> e.sent[k].pg]

\* the offsets of a list that lie inside block b, in order
RECURSIVE InBlock(_, _)
InBlock(l, b) ==
    IF l = <<>> THEN <<>>
    ELSE IF Head(l) \in TargetPages(b) THEN <<Head(l)>> \o InBlock(Tail(l), b)
    ELSE InBlock(Tail(l), b)

\* the offsets of a list that are dirty when their turn comes, each once
RECURSIVE StillDirty(_, _)
StillDirty(l, d) ==
    IF l = <<>> THEN <<>>
    ELSE IF Head(l) \in d THEN <<Head(l)>> \o StillDirty(Tail(l), d \ {Head(l)})
    ELSE StillDirty(Tail(l), d)

\* the requested offsets before the first one that lies outside block b
RECURSIVE UntilOutside(_, _)
UntilOutside(po, b) ==
    IF po = <<>> \/ Head(po) \notin TargetPages(b) THEN <<>>
    ELSE <<Head(po)>> \o UntilOutside(Tail(po), b)

C27_CursorForward ==
    mode = "req" =>
        \A i \in PageServices :
            (/\ ~no_background
             /\ ~svc_log[i].abort
             /\ svc_log[i].cur0.b = svc_log[i].last) =>
                /\ svc_log[i].cur1.b = svc_log[i].last
                /\ svc_log[i].cur1.pg >= svc_log[i].cur0.pg

\* C29: for every PAGE or PAGE_CONT request applied to a block, whatever its offsets
\* and the prefault windows, every page the source writes lies inside the block, and
\* the service ends without a failed assertion or an abort.
C29_OutOfRangeSkipped ==
    mode = "req" =>
        \A i \in PageServices :
            svc_log[i].last # NoBlock =>
                /\ \A k \in 1..Len(svc_log[i].sent) :
                       svc_log[i].sent[k].pg \in TargetPages(svc_log[i].last)
                /\ ~svc_log[i].abort

----------------------------------------------------------------------------
(* Properties of the source loop with waiting requests (SpecReq)            *)

\* the requests serviced by a step, and what the step wrote
NewServices == SubSeq(svc_log', Len(svc_log) + 1, Len(svc_log'))
NewServiceBytes ==
    Flatten([i \in 1..Len(NewServices) |->
                postcopy_incoming_send_req_one(
                    Req(NewServices[i].cmd, NewServices[i].idstr, NewServices[i].pgoffs))])
NewServiceSent == Flatten([i \in 1..Len(NewServices) |-> NewServices[i].sent])
PendingBytes == file_read.fb \o file_read.sk

----------------------------------------------------------------------------
(* Properties of the request wire between the daemon and the source (Spec)  *)

\* the (block, target page) pairs the source applied its PAGE and PAGE_CONT frames
\* to, in the order of service, and the pairs the daemon put into its frames
AppliedPages ==
    Flatten([i \in 1..Len(svc_log) |->
                IF svc_log[i].cmd \in {QEMU_UMEM_REQ_PAGE, QEMU_UMEM_REQ_PAGE_CONT}
                THEN [k \in 1..Len(svc_log[i].pgoffs) |->
                         <<svc_log[i].last, svc_log[i].pgoffs[k]>>]
                ELSE <<>>])
FramedPages == [i \in 1..Len(req_log) |-> <<req_log[i].block, req_log[i].pg>>]

\* C28: every PAGE_CONT frame the source services comes after a PAGE frame, and the
\* block the source applies any PAGE or PAGE_CONT frame to is the block whose faults
\* the daemon put into that frame: the pages the source applied its frames to are, in
\* order, the pages the daemon framed.
C28_ContBlockAgrees ==
    /\ \A i \in 1..Len(svc_log) :
           svc_log[i].cmd = QEMU_UMEM_REQ_PAGE_CONT =>
               /\ svc_log[i].last # NoBlock
               /\ \E j \in 1..(i - 1) : svc_log[j].cmd = QEMU_UMEM_REQ_PAGE
    /\ Len(AppliedPages) <= Len(FramedPages)
    /\ \A i \in 1..Len(AppliedPages) : AppliedPages[i] = FramedPages[i]

\* the source serviced a PAGE for a block and then a PAGE_CONT, applied to that block
C28_Witness ==
    /\ mode = "full"
    /\ \E i, j \in 1..Len(svc_log) :
          /\ i < j
          /\ svc_log[i].cmd = QEMU_UMEM_REQ_PAGE
          /\ svc_log[j].cmd = QEMU_UMEM_REQ_PAGE_CONT
          /\ svc_log[j].last = svc_log[i].last
          /\ svc_log[j].pgoffs # <<>>
          /\ svc_log[j].ret = 0

----------------------------------------------------------------------------
(* Properties of the fault pipe and the pending-clean bits (SpecPending)    *)

\* the would-block events among pend_log
AgainEvents == {i \in 1..Len(pend_log) : pend_log[i].kind = "again"}

\* C22: whenever mark_cached meets would-block, for the stream reader and for the
\* clean-bitmap worker and for every block, the bits set afterwards are those set
\* before together with exactly the host pages of the batch, in pending_clean of the
\* block the batch belongs to.
C22_WouldBlockMarksBatch ==
    \A i \in AgainEvents :
        pend_log[i].after =
            [b \in Blocks |->
                pend_log[i].before[b] \cup
                (IF b = pend_log[i].block THEN SeqRange(pend_log[i].batch) ELSE {})]

\* the same for the stream reader and the block at offset 0 alone
C22_AtOffsetZero ==
    \A i \in AgainEvents :
        (pend_log[i].caller = "ram_loaded" /\ BlockOffset(pend_log[i].block) = 0) =>
            pend_log[i].after =
                [b \in Blocks |->
                    pend_log[i].before[b] \cup
                    (IF b = pend_log[i].block THEN SeqRange(pend_log[i].batch) ELSE {})]

\* C24: in every state, every bit set in a block's pending_clean is the offset of a
\* host page of that block which is marked cached in the backing store.
C24_PendingIsCached ==
    mode = "pending" =>
        \A b \in Blocks : pending_clean[b] \subseteq (cached[b] \cap HostPages(b))

\* how often bit h of block b was newly set by a would-block, and how often the
\* pending-clean thread wrote it to the fault pipe
TimesSet(b, h) ==
    Cardinality({i \in AgainEvents :
                    h \in pend_log[i].after[b] /\ h \notin pend_log[i].before[b]})
TimesDrained(b, h) ==
    Cardinality({i \in 1..Len(pend_log) :
                    /\ pend_log[i].kind = "drain"
                    /\ pend_log[i].block = b
                    /\ h \in SeqRange(pend_log[i].batch)})
PipeUnread == fault_thr.qemu = "closed"

\* host-page offsets under any ratio of the page sizes: a block of the model has at
\* most twice as many host pages as it has units
AnyPgoff == 0..(2 * (BlockUnits + 1))

\* C23: under fair scheduling, and as long as the supervisor reads the fault pipe,
\* every bit set in a block's pending_clean is cleared by the pending-clean thread and
\* its offset written to the fault pipe, as often as it was set, also when bits are set
\* while the thread has left the mutex in the middle of a scan.
C23_EveryBitDrained ==
    \A b \in Blocks : \A h \in AnyPgoff :
        (TimesSet(b, h) > TimesDrained(b, h))
            ~> (TimesSet(b, h) = TimesDrained(b, h) \/ PipeUnread)

\* the thread wrote a batch, a would-block set a bit while it was outside the mutex
\* or afterwards, and the thread wrote that bit as well
C23_Witness ==
    /\ mode = "pending"
    /\ ~PipeUnread
    /\ \E i, j, k \in 1..Len(pend_log) :
          /\ i < j /\ j < k
          /\ pend_log[i].kind = "drain"
          /\ pend_log[j].kind = "again"
          /\ pend_log[k].kind = "drain"
          /\ \E h \in SeqRange(pend_log[k].batch) :
                /\ h \in pend_log[j].after[pend_log[k].block]
                /\ h \notin pend_log[j].before[pend_log[k].block]
    /\ \A b \in Blocks : \A h \in AnyPgoff : TimesSet(b, h) = TimesDrained(b, h)

\* C25: over the whole run the daemon unmaps the backing-store shared memory of every
\* block exactly once: never while the block is unfinished, never a second time by a
\* later completion check or by the final block cleanup, and once by the time the
\* daemon has freed its blocks.
C25_UnmapOnce ==
    mode = "pending" =>
        \A b \in Blocks :
            /\ unmap_calls[b] <= 1
            /\ unmap_calls[b] >= 1 => umem_shmem_finished(cached, b)
            /\ fault_thr.umemd = "freed" => unmap_calls[b] = 1

\* no block is unmapped while it is unfinished, and every block has been unmapped by
\* the time the daemon has freed its blocks
C25_UnmapAfterFinished ==
    mode = "pending" =>
        \A b \in Blocks :
            /\ unmap_calls[b] >= 1 => umem_shmem_finished(cached, b)
            /\ fault_thr.umemd = "freed" => unmap_calls[b] >= 1

----------------------------------------------------------------------------
(* Properties of the whole daemon with the supervisor (SpecUmemd).         *)

\* page p of block b has its requested bit set, yet no frame names it, it was not
\* received and it is not clean: its fault was drained and no request was written
SilentlyUnrequested(b, p) ==
    /\ p \in phys_requested[b]
    /\ ~Named(b, p)
    /\ p \notin phys_received[b]
    /\ p \notin clean_bitmap[b]

\* C31 (as claimed): EOC is written only with UMEM_STATE_EOC_SEND_REQ set and when no
\* faulted page still has to be requested: no fault drained after EOC leaves a page
\* with its requested bit set that no frame names.
C31_EocAfterLastRequest ==
    /\ eoc_log # <<>> => UMEM_STATE_EOC_SEND_REQ \in umemd_state
    /\ \A b \in Blocks : \A p \in TargetPages(b) : ~SilentlyUnrequested(b, p)

\* the request builder handles the faults of block b in this step: with precopy
\* postcopy_incoming_umem_send_page_req tests clean_bitmap of the block for each of them
BuilderReadsClean(b) == precopy_enabled /\ fault_q[b] # <<>> /\ fault_q'[b] = <<>>

\* C32 (as claimed): with precopy, the request builder reads clean_bitmap of a block
\* only after the loader has written it, and clean_bitmap of a loaded block never
\* changes.
C32_CleanWrittenBeforeRead ==
    [][\A b \in Blocks :
          /\ BuilderReadsClean(b) => b \in loaded
          /\ (precopy_enabled /\ b \in loaded) => clean_bitmap'[b] = clean_bitmap[b]]_vars

\* C32 (supporting): the second half alone; clean_bitmap of a block is written once
C32_CleanWrittenOnce ==
    [][\A b \in Blocks :
          (precopy_enabled /\ b \in loaded) => clean_bitmap'[b] = clean_bitmap[b]]_vars

----------------------------------------------------------------------------
(* Properties of the request builder's page arithmetic (Spec).             *)

\* the target page that contains host page h, and the host pages of target page t,
\* when a target page holds nr_host_pages_per_target_page host pages
TargetOfHost(h) == h \div nr_host_pages_per_target_page
HostsOfTarget(t) ==
    {t * nr_host_pages_per_target_page + j : j \in 0..(nr_host_pages_per_target_page - 1)}

\* the faults the request builder takes from block b in this step
Drained(b) == {fault_q[b][i].pgoff : i \in 1..Len(fault_q[b])}

\* target page t of block b needs no request: it is clean or received
NeedsNoRequest(b, t) ==
    (precopy_enabled /\ t \in clean_bitmap[b]) \/ t \in phys_received[b]

\* the frames written in this step that name a page of block b
NewFrames(b) ==
    SelectSeq(SubSeq(req_log', Len(req_log) + 1, Len(req_log')),
              LAMBDA e : e.block = b)

\* what the statement lets the builder do with the faults of block b in this step
CoalescedStep(b) ==
    LET asked == {TargetOfHost(h) : h \in {x \in Drained(b) :
                      /\ ~NeedsNoRequest(b, TargetOfHost(x))
                      /\ TargetOfHost(x) \notin phys_requested[b]}}
        clean == {h \in Drained(b) : NeedsNoRequest(b, TargetOfHost(h))}
        new   == NewFrames(b)
    IN  /\ mig_write_open => {new[i].pg : i \in 1..Len(new)} = asked
        /\ \A i, j \in 1..Len(new) : i < j => new[i].pg # new[j].pg
        /\ phys_requested'[b] = phys_requested[b] \cup asked
        /\ cached'[b] = cached[b] \cup UNION {HostsOfTarget(TargetOfHost(h)) : h \in clean}

\* C33 (as claimed): when the target page is at least as large as the host page, the
\* builder maps each faulted host page to the target page containing it, writes one
\* request per target page however many of its host pages faulted, and for a fault on
\* a clean or received target page marks cached exactly the host pages of that page.
C33_TargetCoalesce ==
    [][(TARGET_PAGE_SIZE >= host_page_size) =>
          \A b \in Blocks :
              (fault_q[b] # <<>> /\ fault_q'[b] = <<>>) => CoalescedStep(b)]_vars

\* C33 (supporting): the same with host and target pages of equal size
C33_EqualPages ==
    [][(TARGET_PAGE_SIZE = host_page_size) =>
          \A b \in Blocks :
              (fault_q[b] # <<>> /\ fault_q'[b] = <<>>) => CoalescedStep(b)]_vars

----------------------------------------------------------------------------
(* Properties of the end of the pending-clean thread (SpecPending).        *)

\* C34 (as claimed): the pending-clean thread has returned only after the daemon set
\* pending_clean_exit, and then no bit of any pending_clean bitmap is set, so that
\* assert(umemd.nr_pending_clean == 0) holds when the daemon ends.
C34_DrainerExitsEmpty ==
    pend_thr.pc = "exit" =>
        /\ fault_thr.umemd = "freed"
        /\ nr_pending_clean(pend_nr) = 0
        /\ \A b \in Blocks : pending_clean[b] = {}

\* C34 (supporting): the same for the runs in which no write to the fault pipe failed
C34_ExitsEmptyUnlessWriteFails ==
    (pend_thr.pc = "exit" /\ fault_thr.qemu # "closed") =>
        /\ fault_thr.umemd = "freed"
        /\ nr_pending_clean(pend_nr) = 0
        /\ \A b \in Blocks : pending_clean[b] = {}

----------------------------------------------------------------------------
(* Properties of the source's dispatch (SpecSrc).                          *)

\* C37: the assertions on s->state hold wherever the loop of postcopy_outgoing gets:
\* postcopy_outgoing_recv_handler is entered only in ACTIVE or ALL_PAGES_SENT,
\* postcopy_outgoing_ram_save_background only in ACTIVE, EOC_RECEIVED or ERROR_RECEIVE,
\* ALL_PAGES_SENT is entered only from ACTIVE, and no tick ends in a failed assertion.
C37_StateAssertions ==
    [][ /\ SrcRecvTick => po_state \in {PO_STATE_ACTIVE, PO_STATE_ALL_PAGES_SENT}
        /\ SrcBackgroundTick =>
              po_state \in {PO_STATE_ACTIVE, PO_STATE_EOC_RECEIVED, PO_STATE_ERROR_RECEIVE}
        /\ (po_state' = PO_STATE_ALL_PAGES_SENT /\ po_state # PO_STATE_ALL_PAGES_SENT) =>
              po_state = PO_STATE_ACTIVE
        /\ src_pc' # "aborted" ]_vars

\* C37 witness: the request handler ran in ALL_PAGES_SENT, which the background sender
\* had entered from ACTIVE after writing a page, and a later request failed there
C37_Witness ==
    /\ mode = "src" /\ src_pc = "returned" /\ po_state = PO_STATE_COMPLETED
    /\ \E i \in 1..Len(out_log) : out_log[i].type = "page"
    /\ \E i \in 1..Len(svc_log) :
          /\ svc_log[i].before = PO_STATE_ALL_PAGES_SENT
          /\ svc_log[i].ret < 0

----------------------------------------------------------------------------
(* Properties of the daemon's commands to the supervisor (SpecUmemd).      *)

\* how often the daemon wrote the command c to the supervisor
TimesWritten(c) == Cardinality({i \in 1..Len(to_qemu_log) : to_qemu_log[i] = c})

\* C38: the daemon writes UMEM_DAEMON_QUIT at most once and UMEM_DAEMON_ERROR at most
\* once, and QUIT is the last command it writes.
C38_QuitAndErrorOnce ==
    /\ TimesWritten(UMEM_DAEMON_QUIT) <= 1
    /\ TimesWritten(UMEM_DAEMON_ERROR) <= 1
    /\ \A i \in 1..Len(to_qemu_log) :
          to_qemu_log[i] = UMEM_DAEMON_QUIT => i = Len(to_qemu_log)

\* C38 witness: the supervisor's QUIT arrived, the daemon reported an error and then
\* wrote QUIT, and the mig-read thread has left on the error
C38_Witness ==
    /\ mode = "umemd"
    /\ to_qemu_log = <<UMEM_DAEMON_ERROR, UMEM_DAEMON_QUIT>>
    /\ UMEM_STATE_QUIT_RECEIVED \in umemd_state
    /\ mig_read_pc = "exit"


\* the mig-read thread has left its loop with mig_read still open: a read of the
\* migration stream failed
ReadFailed == mig_read_pc = "exit" /\ mig_read_open

\* C36: unless a read of the migration stream fails, no thread of the daemon sets
\* UMEM_STATE_ERROR_REQ and the daemon does not write UMEM_DAEMON_ERROR, whatever the
\* order of the mig-read, mig-write and pipe threads after END-OF-STREAM.
C36_NoErrorWithoutFailure ==
    (UMEM_STATE_ERROR_REQ \in umemd_state \/ TimesWritten(UMEM_DAEMON_ERROR) > 0) =>
        ReadFailed

\* C36 witness: END-OF-STREAM was received, EOC and QUIT were written, the mig-read
\* thread left through the closed stream and the other threads through the end test,
\* and no error was latched
C36_Witness ==
    /\ mode = "umemd"
    /\ UMEM_STATE_END_MASK \subseteq umemd_state
    /\ UMEM_STATE_ERROR_REQ \notin umemd_state
    /\ \A t \in UmemdThreads : ThreadPc(t) = "exit"
    /\ ~mig_read_open
    /\ to_qemu_log = <<UMEM_DAEMON_QUIT>>
    /\ req_log # <<>>


----------------------------------------------------------------------------
(* Properties of the pending-clean counters (SpecPending).                 *)

RECURSIVE SumBlockNr(_, _)
SumBlockNr(c, bs) == IF bs = <<>> THEN 0 ELSE c.block[Head(bs)] + SumBlockNr(c, Tail(bs))

\* C40: in every state in which no thread holds pending_clean_mutex,
\* umemd.nr_pending_clean is the sum of block->nr_pending_clean over umemd.blocks, and
\* block->nr_pending_clean is the number of bits set in block->pending_clean_bitmap.
C40_CountersMatchBits ==
    /\ pend_nr.total = SumBlockNr(pend_nr, UMemBlocks)
    /\ \A b \in Blocks : pend_nr.block[b] = Cardinality(pending_clean[b])

\* bits are pending after the pending-clean thread has taken some and a caller of
\* mark_pending_clean has come while bits were set
C40_Witness ==
    /\ pend_nr.total > 1
    /\ \E i \in 1..Len(pend_log) : pend_log[i].kind = "drain"
    /\ \E i \in 1..Len(pend_log) :
          /\ pend_log[i].kind = "again"
          /\ \E b \in Blocks : pend_log[i].before[b] # {}

----------------------------------------------------------------------------
(* Properties of the daemon's thread creation and joins (SpecThreads).     *)

\* C39 (as claimed): whenever postcopy_incoming_umemd joins the bitmap thread or the
\* pending-clean thread, exactly one qemu_thread_create has been called for that
\* thread before, on every path of the daemon.
C39_CreatedOnceBeforeJoin ==
    \A i \in 1..Len(thr_life.joined) : thr_life.joined[i].made = 1

\* the clean bitmaps could not be read: mig_read_init returned before it created
\* the bitmap thread
BitmapReadFailed == precopy_enabled /\ thr_life.bitmap = 0 /\ mig_read_pc = "exit"

\* C39 (supporting): the same on every path on which the read of the clean bitmaps
\* succeeded, a failed fault pass of the worker included; and no thread of the two
\* is created twice
C39_CreatedOnceUnlessReadFails ==
    /\ thr_life.bitmap <= 1
    /\ thr_life.pending <= 1
    /\ ~BitmapReadFailed => C39_CreatedOnceBeforeJoin

\* the worker's fault pass failed and the daemon has joined both threads
FailedPassJoined ==
    /\ thr_life.main = "done"
    /\ Len(thr_life.joined) = 2
    /\ fault_thr.qemu = "closed"
    /\ \E i \in 1..Len(pend_log) : pend_log[i].caller = "bitmap"


----------------------------------------------------------------------------
(* Properties of the supervisor's fault thread (SpecFaultIn).              *)

\* every byte the backing store wrote is, in order, forwarded, held in buf or still
\* in the pipe; only whole offsets are forwarded, and while the loop runs buf holds
\* less than one offset
ForwardedInOrder ==
    /\ fault_in.back \o fault_in.buf \o fault_in.pipe = OffsetBytes(fault_in.wrote)
    /\ Len(fault_in.back) % SizeofU64 = 0
    /\ fault_in.pc = "loop" => Len(fault_in.buf) < SizeofU64

\* C35 (as claimed): the fault thread forwards every offset it read exactly once and
\* in the order read, keeps the bytes of an incomplete offset across reads, and when
\* it has stopped on end of file, read error or write error, close has been called
\* exactly once for each of read_fd and write_fd.
C35_ForwardsAndClosesOnce ==
    /\ ForwardedInOrder
    /\ fault_in.pc = "returned" =>
          fault_in.closes = [read_fd |-> 1, write_fd |-> 1]

\* C35 (supporting): the forwarding part of the claim; and close is called for both
\* descriptors only when the thread stops, and equally often for both
C35_ForwardsInOrder ==
    /\ ForwardedInOrder
    /\ fault_in.pc = "loop" => fault_in.closes = [read_fd |-> 0, write_fd |-> 0]
    /\ fault_in.closes.read_fd = fault_in.closes.write_fd

\* every offset written was forwarded before the thread stopped at end of file
AllForwardedAtEof ==
    /\ fault_in.pc = "returned"
    /\ fault_in.eof
    /\ fault_in.back = OffsetBytes(fault_in.wrote)
    /\ Len(fault_in.wrote) = MaxFaultInOffsets

====
